---- MODULE Spec2Model ----
(***************************************************************************)
(* Model of the research backend: the in-memory task-status map, the       *)
(* background task conduct_research with its response normalizer           *)
(* parse_json, the record store, and the request handlers of               *)
(* app/routers/research.py.                                                *)
(*                                                                         *)
(* Text is a sequence of one-character strings.  The characters that occur *)
(* in the model are letters, space, newline, and the punctuation           *)
(*   { } [ ] " \ : , / . and the backtick.                                  *)
(* Outside JSON strings no digit, sign or capital N/I occurs, so number    *)
(* tokens and the NaN/Infinity extensions of json.loads cannot be spelled  *)
(* and the decoder below does not scan them.  The texts that the document  *)
(* renderer takes apart add the markup characters # * _ ~ ^ | > - + ( )    *)
(* and digits, all of them inside JSON strings.                            *)
(***************************************************************************)
EXTENDS Integers, Sequences, FiniteSets, TLC

(***************************************************************************)
(* Characters                                                              *)
(***************************************************************************)
DQ == "\""
BSL == "\\"
\* the backtick, which a TLA+ string cannot hold
BT == "<backtick>"
NL == "\n"

\* JSON whitespace (json.decoder WHITESPACE); for the characters of the
\* model it is also what str.strip() and the regex class \s remove.
WS == {" ", "\t", "\n", "\r"}

\* characters below 0x20, rejected inside a string by the strict decoder
ControlChars == {"\t", "\n", "\r", "\f", "<BS>"}

HexLower == {"a", "b", "c", "d", "e", "f"}
HexUpper == {"A", "B", "C", "D", "E", "F"}
\* [0-9a-fA-F] of the escape-repair regex, digits included
HexDigit == HexLower \cup HexUpper \cup {"0", "1", "2", "3", "4", "5", "6", "7", "8", "9"}

LowerHex(c) ==
    CASE c = "A" -> "a" [] c = "B" -> "b" [] c = "C" -> "c"
      [] c = "D" -> "d" [] c = "E" -> "e" [] c = "F" -> "f"
      [] OTHER -> c

\* json.decoder BACKSLASH: the one-character escapes and what they decode to
SimpleEscapes == {DQ, BSL, "/", "b", "f", "n", "r", "t"}

BACKSLASH(c) ==
    CASE c = "b" -> "<BS>" [] c = "f" -> "\f" [] c = "n" -> "\n"
      [] c = "r" -> "\r" [] c = "t" -> "\t"
      [] OTHER -> c

\* the code point decoded from \uXXXX, kept as one character "U+xxxx"
UniChar(a, b, c, d) == "U+" \o LowerHex(a) \o LowerHex(b) \o LowerHex(c) \o LowerHex(d)

(***************************************************************************)
(* Sequence helpers (no recursion over the length of a text)               *)
(***************************************************************************)
\* the one element of a one-element set; Only({ e(x) : x \in {v} }) is e(v)
\* with v evaluated once, whatever the number of places e uses it in
Only(S) == CHOOSE x \in S : TRUE

RECURSIVE FlatRange(_, _, _)
FlatRange(ss, lo, hi) ==
    IF lo > hi THEN <<>>
    ELSE IF lo = hi THEN ss[lo]
    ELSE LET mid == (lo + hi) \div 2
         IN  FlatRange(ss, lo, mid) \o FlatRange(ss, mid + 1, hi)

Flatten(ss) == Only({ FlatRange(t, 1, Len(t)) : t \in {ss} })

\* s[:n]
Prefix(s, n) == IF Len(s) <= n THEN s ELSE SubSeq(s, 1, n)

\* str.strip()
strip(s) ==
    Only({ IF \A i \in 1..Len(t) : t[i] \in WS THEN <<>>
           ELSE LET a == CHOOSE i \in 1..Len(t) :
                             t[i] \notin WS /\ \A m \in 1..(i - 1) : t[m] \in WS
                    b == CHOOSE i \in 1..Len(t) :
                             t[i] \notin WS /\ \A m \in (i + 1)..Len(t) : t[m] \in WS
                IN  SubSeq(t, a, b)
           : t \in {s} })

\* str.find(c) / str.rfind(c); 0 stands for -1 of Python, positions are 1-based
find(s, c) ==
    IF \A i \in 1..Len(s) : s[i] # c THEN 0
    ELSE CHOOSE i \in 1..Len(s) : s[i] = c /\ \A m \in 1..(i - 1) : s[m] # c

rfind(s, c) ==
    IF \A i \in 1..Len(s) : s[i] # c THEN 0
    ELSE CHOOSE i \in 1..Len(s) : s[i] = c /\ \A m \in (i + 1)..Len(s) : s[m] # c

(***************************************************************************)
(* JSON values, as json.loads builds them                                  *)
(***************************************************************************)
JStr(chars) == [t |-> "str", s |-> chars, k |-> <<>>, v |-> <<>>]
JArr(items) == [t |-> "arr", s |-> <<>>, k |-> <<>>, v |-> items]
\* a dict: keys in insertion order, v[i] the value of k[i]
JObj(keys, vals) == [t |-> "obj", s |-> <<>>, k |-> keys, v |-> vals]
JLit(name) == [t |-> name, s |-> <<>>, k |-> <<>>, v |-> <<>>]
JNull == JLit("null")

HasKey(o, key) == \E i \in 1..Len(o.k) : o.k[i] = key
KeyIndex(o, key) == CHOOSE i \in 1..Len(o.k) : o.k[i] = key
\* dict.get(key, default)
Get(o, key, default) == IF HasKey(o, key) THEN o.v[KeyIndex(o, key)] ELSE default

\* d[key] = val on the pairs read so far: a repeated key keeps its place and
\* takes the later value
ObjPut(keys, vals, key, val) ==
    IF \E i \in 1..Len(keys) : keys[i] = key
    THEN LET x == CHOOSE i \in 1..Len(keys) : keys[i] = key
         IN  [k |-> keys, v |-> [vals EXCEPT ![x] = val]]
    ELSE [k |-> Append(keys, key), v |-> Append(vals, val)]

(***************************************************************************)
(* json.loads (strict mode)                                                *)
(***************************************************************************)
Fail == [ok |-> FALSE, val |-> JNull, end |-> 0]
Ok(val, end) == [ok |-> TRUE, val |-> val, end |-> end]

\* first position at or after i that is not whitespace (Len(s)+1 at the end)
SkipWS(s, i) ==
    CHOOSE j \in i..(Len(s) + 1) :
        /\ (j = Len(s) + 1 \/ s[j] \notin WS)
        /\ \A m \in i..(j - 1) : s[m] \in WS

\* number of consecutive backslashes directly before position k, not going
\* below lo
RECURSIVE BackslashRun(_, _, _)
BackslashRun(s, lo, k) ==
    IF k - 1 < lo \/ s[k - 1] # BSL THEN 0 ELSE 1 + BackslashRun(s, lo, k - 1)

\* inside a string that starts at lo: position k is not consumed by an
\* escape that starts before it
Unescaped(s, lo, k) == BackslashRun(s, lo, k) % 2 = 0

ValidEscapeAt(s, k) ==
    /\ k + 1 <= Len(s)
    /\ \/ s[k + 1] \in SimpleEscapes
       \/ /\ s[k + 1] = "u"
          /\ k + 5 <= Len(s)
          /\ \A d \in 2..5 : s[k + d] \in HexDigit

\* the character(s) position k contributes to the decoded string; "" when k
\* is consumed by an escape that starts before it
DecodedAt(s, lo, k) ==
    IF s[k] = BSL /\ Unescaped(s, lo, k)
    THEN IF s[k + 1] = "u"
         THEN UniChar(s[k + 2], s[k + 3], s[k + 4], s[k + 5])
         ELSE BACKSLASH(s[k + 1])
    ELSE IF k - 1 >= lo /\ s[k - 1] = BSL /\ Unescaped(s, lo, k - 1)
         THEN ""
    ELSE IF \E d \in 2..5 : /\ k - d >= lo
                            /\ s[k - d] = BSL
                            /\ Unescaped(s, lo, k - d)
                            /\ s[k - d + 1] = "u"
         THEN ""
    ELSE s[k]

\* json.decoder scanstring, lo the position after the opening quote
scanstring(s, lo) ==
    IF \A j \in lo..Len(s) : ~(s[j] = DQ /\ Unescaped(s, lo, j)) THEN Fail
    ELSE LET close == CHOOSE j \in lo..Len(s) :
                          /\ s[j] = DQ /\ Unescaped(s, lo, j)
                          /\ \A m \in lo..(j - 1) : ~(s[m] = DQ /\ Unescaped(s, lo, m))
         IN  IF \E m \in lo..(close - 1) :
                    \/ s[m] \in ControlChars
                    \/ s[m] = BSL /\ Unescaped(s, lo, m) /\ ~ValidEscapeAt(s, m)
             THEN Fail
             ELSE Ok(JStr(SelectSeq([x \in 1..(close - lo) |-> DecodedAt(s, lo, lo + x - 1)],
                                    LAMBDA c : c # "")),
                     close + 1)

Matches(s, i, word) ==
    /\ i + Len(word) - 1 <= Len(s)
    /\ \A d \in 1..Len(word) : s[i + d - 1] = word[d]

\* json.scanner scan_once with the object and array parsers it calls and
\* that call it back, as one recursive operator:
\*   what = "value":  scan_once at position i
\*   what = "object": JSONObject, i the position after the opening quote of
\*                    the next key, keys and vals the pairs read so far
\*   what = "array":  JSONArray, i the position of the next element, vals the
\*                    items read so far
RECURSIVE scan(_, _, _, _, _)
scan(what, s, at, keys, vals) == Only({
    IF what = "object"
    THEN Only({
           IF ~key.ok THEN Fail
           ELSE Only({
             IF colon > Len(s) \/ s[colon] # ":" THEN Fail
             ELSE Only({
               IF ~val.ok THEN Fail
               ELSE Only({
                 IF e > Len(s) THEN Fail
                 ELSE Only({
                   IF s[e] = "}" THEN Ok(JObj(put.k, put.v), e + 1)
                   ELSE IF s[e] # "," THEN Fail
                   ELSE Only({
                     IF n > Len(s) \/ s[n] # DQ THEN Fail
                     ELSE scan("object", s, n + 1, put.k, put.v)
                     : n \in {SkipWS(s, e + 1)} })
                   : put \in {ObjPut(keys, vals, key.val.s, val.val)} })
                 : e \in {SkipWS(s, val.end)} })
               : val \in {scan("value", s, SkipWS(s, colon + 1), <<>>, <<>>)} })
             : colon \in {SkipWS(s, key.end)} })
           : key \in {scanstring(s, i)} })
    ELSE IF what = "array"
    THEN Only({
           IF ~val.ok THEN Fail
           ELSE Only({
             IF e > Len(s) THEN Fail
             ELSE IF s[e] = "]" THEN Ok(JArr(Append(vals, val.val)), e + 1)
             ELSE IF s[e] # "," THEN Fail
             ELSE scan("array", s, SkipWS(s, e + 1), <<>>, Append(vals, val.val))
             : e \in {SkipWS(s, val.end)} })
           : val \in {scan("value", s, i, <<>>, <<>>)} })
    ELSE IF i > Len(s) THEN Fail
    ELSE IF s[i] = DQ THEN scanstring(s, i + 1)
    ELSE IF s[i] = "{"
         THEN Only({
                IF j > Len(s) THEN Fail
                ELSE IF s[j] = "}" THEN Ok(JObj(<<>>, <<>>), j + 1)
                ELSE IF s[j] # DQ THEN Fail
                ELSE scan("object", s, j + 1, <<>>, <<>>)
                : j \in {SkipWS(s, i + 1)} })
    ELSE IF s[i] = "["
         THEN Only({
                IF j > Len(s) THEN Fail
                ELSE IF s[j] = "]" THEN Ok(JArr(<<>>), j + 1)
                ELSE scan("array", s, j, <<>>, <<>>)
                : j \in {SkipWS(s, i + 1)} })
    ELSE IF Matches(s, i, <<"n", "u", "l", "l">>) THEN Ok(JNull, i + 4)
    ELSE IF Matches(s, i, <<"t", "r", "u", "e">>) THEN Ok(JLit("true"), i + 4)
    ELSE IF Matches(s, i, <<"f", "a", "l", "s", "e">>) THEN Ok(JLit("false"), i + 5)
    ELSE Fail
    : i \in {at} })

scan_once(s, i) == scan("value", s, i, <<>>, <<>>)

\* json.loads(s): one value, whitespace around it, nothing else; the result
\* is [ok, val], ok = FALSE standing for JSONDecodeError
json_loads(s) ==
    Only({ Only({ IF r.ok /\ SkipWS(t, r.end) = Len(t) + 1
                  THEN [ok |-> TRUE, val |-> r.val]
                  ELSE [ok |-> FALSE, val |-> JNull]
                  : r \in {scan_once(t, SkipWS(t, 1))} })
           : t \in {s} })

(***************************************************************************)
(* json.dumps (default separators, ensure_ascii)                           *)
(***************************************************************************)
HexOut == HexLower \cup {"0", "1", "2", "3", "4", "5", "6", "7", "8", "9"}

\* json.encoder ESCAPE_ASCII, one character
EscapeChar(c) ==
    CASE c = DQ -> <<BSL, DQ>>
      [] c = BSL -> <<BSL, BSL>>
      [] c = "\n" -> <<BSL, "n">>
      [] c = "\r" -> <<BSL, "r">>
      [] c = "\t" -> <<BSL, "t">>
      [] c = "\f" -> <<BSL, "f">>
      [] c = "<BS>" -> <<BSL, "b">>
      [] OTHER ->
           IF Len(c) = 6
           THEN LET q == CHOOSE h \in HexOut \X HexOut \X HexOut \X HexOut :
                             c = UniChar(h[1], h[2], h[3], h[4])
                IN  <<BSL, "u", q[1], q[2], q[3], q[4]>>
           ELSE <<c>>

encode_basestring_ascii(chars) ==
    Only({ <<DQ>> \o Flatten([i \in 1..Len(t) |-> EscapeChar(t[i])]) \o <<DQ>> : t \in {chars} })

\* the encoder as one recursive operator:
\*   what = "value": x as JSON text
\*   what = "items": the items of the list x from position i on, separated
\*                   by ", "
\*   what = "pairs": the pairs of the dict x from position i on, key ": "
\*                   value, separated by ", "
RECURSIVE dump(_, _, _)
dump(what, of, i) == Only({
    IF what = "items"
    THEN IF i > Len(x) THEN <<>>
         ELSE dump("value", x[i], 1)
              \o (IF i < Len(x) THEN <<",", " ">> ELSE <<>>)
              \o dump("items", x, i + 1)
    ELSE IF what = "pairs"
    THEN IF i > Len(x.k) THEN <<>>
         ELSE encode_basestring_ascii(x.k[i]) \o <<":", " ">> \o dump("value", x.v[i], 1)
              \o (IF i < Len(x.k) THEN <<",", " ">> ELSE <<>>)
              \o dump("pairs", x, i + 1)
    ELSE CASE x.t = "str" -> encode_basestring_ascii(x.s)
           [] x.t = "arr" -> <<"[">> \o dump("items", x.v, 1) \o <<"]">>
           [] x.t = "obj" -> <<"{">> \o dump("pairs", x, 1) \o <<"}">>
           [] x.t = "null" -> <<"n", "u", "l", "l">>
           [] x.t = "true" -> <<"t", "r", "u", "e">>
           [] x.t = "false" -> <<"f", "a", "l", "s", "e">>
    : x \in {of} })

json_dumps(x) == dump("value", x, 1)

(***************************************************************************)
(* parse_json                                                              *)
(***************************************************************************)
\* a lookahead that takes u and any four characters for an escape
EscapeFollows_any_four(s, k) ==
    /\ k + 1 <= Len(s)
    /\ \/ s[k + 1] \in SimpleEscapes
       \/ /\ s[k + 1] = "u"
          /\ k + 5 <= Len(s)

\* the lookahead of the repair regex: what follows position k is one of
\* " \ / b f n r t, or u and four hex digits
EscapeFollows(s, k) ==
    /\ k + 1 <= Len(s)
    /\ \/ s[k + 1] \in SimpleEscapes
       \/ /\ s[k + 1] = "u"
          /\ k + 5 <= Len(s)
          /\ \A d \in 2..5 : s[k + d] \in HexDigit

\* re.sub(r'\\(?!["\\/bfnrt]|u[0-9a-fA-F]{4})', r"\\\\", s): every backslash
\* that the lookahead does not excuse becomes two backslashes
fix_escapes(s) ==
    Only({ Flatten([k \in 1..Len(t) |->
                       IF t[k] = BSL /\ ~EscapeFollows(t, k) THEN <<BSL, BSL>> ELSE <<t[k]>>])
           : t \in {s} })

IsFence(s, p) == p + 2 <= Len(s) /\ s[p] = BT /\ s[p + 1] = BT /\ s[p + 2] = BT

\* code_block_match with the pattern "```\s*([\s\S]*?)\s*```": the tag json is
\* not skipped and stays in the group
code_block_match_tag_kept(text) ==
    IF \A p \in 1..Len(text) : ~IsFence(text, p) THEN [found |-> FALSE, json_str |-> <<>>]
    ELSE LET open == CHOOSE p \in 1..Len(text) :
                         IsFence(text, p) /\ \A m \in 1..(p - 1) : ~IsFence(text, m)
             start == open + 3
         IN  IF \A q \in start..Len(text) : ~IsFence(text, q)
             THEN [found |-> FALSE, json_str |-> <<>>]
             ELSE LET close == CHOOSE q \in start..Len(text) :
                                   IsFence(text, q) /\ \A m \in start..(q - 1) : ~IsFence(text, m)
                  IN  [found |-> TRUE, json_str |-> strip(SubSeq(text, start, close - 1))]

\* re.search(r"```(?:json)?\s*([\s\S]*?)\s*```", text), then group(1).strip():
\* the opening fence is the first fence that has a fence after it, the tag
\* json is skipped when it follows, and the lazy group ends at the first
\* fence after that
code_block_match(text) ==
    IF \A p \in 1..Len(text) : ~IsFence(text, p) THEN [found |-> FALSE, json_str |-> <<>>]
    ELSE LET open == CHOOSE p \in 1..Len(text) :
                         IsFence(text, p) /\ \A m \in 1..(p - 1) : ~IsFence(text, m)
             start == IF Matches(text, open + 3, <<"j", "s", "o", "n">>)
                      THEN open + 7 ELSE open + 3
         IN  IF \A q \in start..Len(text) : ~IsFence(text, q)
             THEN [found |-> FALSE, json_str |-> <<>>]
             ELSE LET close == CHOOSE q \in start..Len(text) :
                                   IsFence(text, q) /\ \A m \in start..(q - 1) : ~IsFence(text, m)
                  IN  [found |-> TRUE, json_str |-> strip(SubSeq(text, start, close - 1))]

\* text[start_idx : end_idx + 1] when both braces exist and the last follows
\* the first
brace_span(text) ==
    Only({ LET start_idx == find(t, "{")
               end_idx == rfind(t, "}")
           IN  IF start_idx # 0 /\ end_idx # 0 /\ end_idx > start_idx
               THEN [found |-> TRUE, json_str |-> SubSeq(t, start_idx, end_idx)]
               ELSE [found |-> FALSE, json_str |-> <<>>]
           : t \in {text} })

Parsed(r, stage) == [success |-> TRUE, result |-> r.val, stage |-> stage]

\* parse_json that repairs the escapes of the text before the first attempt
parse_json_repair_first(text) ==
    LET fixed == fix_escapes(text)
        direct == json_loads(strip(fixed))
        block == code_block_match(fixed)
        inBlock == json_loads(block.json_str)
        span == brace_span(fixed)
        inSpan == json_loads(span.json_str)
    IN  IF direct.ok THEN Parsed(direct, "raw")
        ELSE IF block.found /\ inBlock.ok THEN Parsed(inBlock, "block")
        ELSE IF span.found /\ inSpan.ok THEN Parsed(inSpan, "span")
        ELSE [success |-> FALSE, result |-> JNull, stage |-> "none"]

\* parse_json that looks for the brace span before the fenced block
parse_json_span_first(text) ==
    LET direct == json_loads(strip(text))
        block == code_block_match(text)
        inBlock == json_loads(block.json_str)
        inFixedBlock == json_loads(fix_escapes(block.json_str))
        span == brace_span(text)
        inSpan == json_loads(span.json_str)
        inFixedSpan == json_loads(fix_escapes(span.json_str))
        fixedSpan == brace_span(fix_escapes(text))
        inFixedText == json_loads(fixedSpan.json_str)
    IN  IF direct.ok THEN Parsed(direct, "raw")
        ELSE IF span.found /\ inSpan.ok THEN Parsed(inSpan, "span")
        ELSE IF span.found /\ inFixedSpan.ok THEN Parsed(inFixedSpan, "span_fixed")
        ELSE IF block.found /\ inBlock.ok THEN Parsed(inBlock, "block")
        ELSE IF block.found /\ inFixedBlock.ok THEN Parsed(inFixedBlock, "block_fixed")
        ELSE IF fixedSpan.found /\ inFixedText.ok THEN Parsed(inFixedText, "text_fixed")
        ELSE [success |-> FALSE, result |-> JNull, stage |-> "none"]

\* parse_json(text): (success, result); stage records which attempt returned
parse_json(text) ==
    LET direct == json_loads(strip(text))
        block == code_block_match(text)
        inBlock == json_loads(block.json_str)
        inFixedBlock == json_loads(fix_escapes(block.json_str))
        span == brace_span(text)
        inSpan == json_loads(span.json_str)
        inFixedSpan == json_loads(fix_escapes(span.json_str))
        fixedSpan == brace_span(fix_escapes(text))
        inFixedText == json_loads(fixedSpan.json_str)
    IN  IF direct.ok THEN Parsed(direct, "raw")
        ELSE IF block.found /\ inBlock.ok THEN Parsed(inBlock, "block")
        ELSE IF block.found /\ inFixedBlock.ok THEN Parsed(inFixedBlock, "block_fixed")
        ELSE IF span.found /\ inSpan.ok THEN Parsed(inSpan, "span")
        ELSE IF span.found /\ inFixedSpan.ok THEN Parsed(inFixedSpan, "span_fixed")
        ELSE IF fixedSpan.found /\ inFixedText.ok THEN Parsed(inFixedText, "text_fixed")
        ELSE [success |-> FALSE, result |-> JNull, stage |-> "none"]

(***************************************************************************)
(* conduct_research: the fallback record and the report row                *)
(***************************************************************************)
K_summary ==
    <<"s", "u", "m", "m", "a", "r", "y">>
K_sections ==
    <<"s", "e", "c", "t", "i", "o", "n", "s">>
K_sources ==
    <<"s", "o", "u", "r", "c", "e", "s">>
K_title ==
    <<"t", "i", "t", "l", "e">>
K_content ==
    <<"c", "o", "n", "t", "e", "n", "t">>
K_url ==
    <<"u", "r", "l">>
FALLBACK_SUMMARY ==
    <<"E", "r", "r", "o", "r", ":", " ", "C", "o", "u", "l", "d", " ", "n", "o", "t", " ", "p", "a", "r", "s", "e", " ", "r", "e", "s", "e", "a", "r", "c", "h", " ", "r", "e", "s", "u", "l", "t", "s">>
FALLBACK_ERROR_TITLE ==
    <<"E", "r", "r", "o", "r">>
FALLBACK_ERROR_CONTENT ==
    <<"T", "h", "e", "r", "e", " ", "w", "a", "s", " ", "a", "n", " ", "e", "r", "r", "o", "r", " ", "p", "r", "o", "c", "e", "s", "s", "i", "n", "g", " ", "t", "h", "e", " ", "r", "e", "s", "e", "a", "r", "c", "h", " ", "r", "e", "s", "u", "l", "t", "s", ".", " ", "P", "l", "e", "a", "s", "e", " ", "t", "r", "y", " ", "a", "g", "a", "i", "n", ".">>
FALLBACK_RAW_TITLE ==
    <<"R", "a", "w", " ", "R", "e", "s", "p", "o", "n", "s", "e">>
TRUNCATION_MARKER ==
    <<".", ".", ".">>

\* full_response[:1000]
RAW_LIMIT == 1000

\* fallback_result with the marker added from 1000 characters on
\* (len(full_response) >= 1000)
fallback_result_marker_early(full_response) ==
    JObj(<<K_summary, K_sections, K_sources>>,
         << JStr(FALLBACK_SUMMARY),
            JArr(<< JObj(<<K_title, K_content>>,
                         <<JStr(FALLBACK_ERROR_TITLE), JStr(FALLBACK_ERROR_CONTENT)>>),
                    JObj(<<K_title, K_content>>,
                         << JStr(FALLBACK_RAW_TITLE),
                            JStr(Prefix(full_response, RAW_LIMIT)
                                 \o (IF Len(full_response) >= RAW_LIMIT
                                     THEN TRUNCATION_MARKER ELSE <<>>)) >>) >>),
            JArr(<<>>) >>)

\* the structure conduct_research creates when parse_json fails
fallback_result(full_response) ==
    JObj(<<K_summary, K_sections, K_sources>>,
         << JStr(FALLBACK_SUMMARY),
            JArr(<< JObj(<<K_title, K_content>>,
                         <<JStr(FALLBACK_ERROR_TITLE), JStr(FALLBACK_ERROR_CONTENT)>>),
                    JObj(<<K_title, K_content>>,
                         << JStr(FALLBACK_RAW_TITLE),
                            JStr(Prefix(full_response, RAW_LIMIT)
                                 \o (IF Len(full_response) > RAW_LIMIT
                                     THEN TRUNCATION_MARKER ELSE <<>>)) >>) >>),
            JArr(<<>>) >>)

\* the report object handed to the insert; the row gets deleted = FALSE from
\* the table default (created_at is not modelled)
build_report(research_id, user_id, topic, result) ==
    [ id |-> research_id,
      user_id |-> user_id,
      topic |-> topic,
      summary |-> Get(result, K_summary, JStr(<<>>)),
      sections |-> Get(result, K_sections, JArr(<<>>)),
      sources |-> Get(result, K_sources, JArr(<<>>)),
      report_json |-> json_dumps(result),
      deleted |-> FALSE ]

(***************************************************************************)
(* The system: bounds and inputs                                           *)
(***************************************************************************)
\* number of research ids the model issues
MaxIds == 2
\* number of temporary paths the model draws
MaxPdfs == 2

Ids == 1..MaxIds
Users == {"alice", "bob"}
Topics == {"ai"}

Str(chars) == JStr(chars)
Section(title, content) == JObj(<<K_title, K_content>>, <<JStr(title), JStr(content)>>)
Report(summary, sections, sources) ==
    JObj(<<K_summary, K_sections, K_sources>>, <<JStr(summary), JArr(sections), JArr(sources)>>)

SEC_A == Section(<<"t">>, <<"c">>)
SEC_B == Section(<<"u">>, <<"a", DQ, "b", BSL, NL>>)
SRC_A == JObj(<<K_title, K_url>>, <<JStr(<<"s">>), JStr(<<"h", ":", "/", "/", "x">>)>>)

REPORT_A == Report(<<"o", "k">>, <<SEC_A>>, <<>>)

\* what the model service answers in the system specification: a report, as
\* the prompt asks for it, or JSON that is not an object
RAW_REPORT == json_dumps(REPORT_A)
RAW_LIST == <<"[", "]">>
SysRaws == {RAW_REPORT, RAW_LIST}

(***************************************************************************)
(* State                                                                   *)
(***************************************************************************)
VARIABLES
    active_research_tasks,  \* research id -> [user_id, topic, status, error, start_time]
    research_reports,       \* the table research_reports: id -> row
    queued,                 \* ids whose background task is added, not started
    frame,                  \* the conduct_research call that holds the event loop
    next_id,                \* ids issued so far (uuid4 never repeats one)
    resp,                   \* the response to the latest request
    temp_files,             \* paths of the temporary PDF files that exist
    sending,                \* paths of the FileResponses not yet transmitted
    next_token              \* tokens drawn for temporary paths so far

vars == <<active_research_tasks, research_reports, queued, frame, next_id, resp,
          temp_files, sending, next_token>>

\* the temporary files and the responses that carry them
pdf_files == <<temp_files, sending, next_token>>

\* no conduct_research call is running
NoFrame ==
    [ id |-> 0, pc |-> "idle", user_id |-> "", topic |-> "", full_response |-> <<>>,
      success |-> FALSE, result |-> JNull, stage |-> "none", report |-> <<>> ]

\* path: the file a FileResponse serves, <<>> when the response has none;
\* document: the content list that was built into that file
NoResp ==
    [ op |-> "none", id |-> 0, user |-> "", code |-> 0, detail |-> "", status |-> "",
      report |-> <<>>, path |-> <<>>, document |-> <<>> ]

Response(op, id, user, code, detail) ==
    [ op |-> op, id |-> id, user |-> user, code |-> code, detail |-> detail, status |-> "",
      report |-> <<>>, path |-> <<>>, document |-> <<>> ]

Init ==
    /\ active_research_tasks = <<>>
    /\ research_reports = <<>>
    /\ queued = {}
    /\ frame = NoFrame
    /\ next_id = 0
    /\ resp = NoResp
    /\ temp_files = {}
    /\ sending = {}
    /\ next_token = 0

Known(i) == i \in DOMAIN active_research_tasks
Stored(i) == i \in DOMAIN research_reports

\* the event loop is free: conduct_research is a coroutine without an await,
\* so from its first statement to its last no request handler and no other
\* background task runs
LoopFree == frame.pc = "idle"

\* .select("*").eq("id", id).eq("user_id", user).eq("deleted", False)
select_report(id, user) ==
    IF /\ Stored(id)
       /\ research_reports[id].user_id = user
       /\ research_reports[id].deleted = FALSE
    THEN <<research_reports[id]>>
    ELSE <<>>

(***************************************************************************)
(* request_research                                                        *)
(***************************************************************************)
\* start_time is the clock reading at the request; the readings are ordered
\* as the requests are, so the entry keeps the rank of its request
request_research(user, topic) ==
    /\ LoopFree
    /\ next_id < MaxIds
    /\ LET research_id == next_id + 1
       IN  /\ next_id' = research_id
           /\ active_research_tasks' =
                  [i \in DOMAIN active_research_tasks \cup {research_id} |->
                      IF i = research_id
                      THEN [user_id |-> user, topic |-> topic, status |-> "in_progress",
                            error |-> "", start_time |-> research_id]
                      ELSE active_research_tasks[i]]
           /\ queued' = queued \cup {research_id}
           /\ resp' = [Response("submit", research_id, user, 200, "") EXCEPT
                           !.status = "in_progress"]
    /\ UNCHANGED <<research_reports, frame, pdf_files>>

(***************************************************************************)
(* conduct_research                                                        *)
(***************************************************************************)
\* conduct_research_except with a handler that only prints: the status is
\* left as it was
conduct_research_except_silent(cause) ==
    /\ active_research_tasks' = active_research_tasks
    /\ frame' = NoFrame

\* conduct_research_except that sets the status and drops the text
conduct_research_except_no_text(cause) ==
    /\ active_research_tasks' =
           [active_research_tasks EXCEPT ![frame.id].status = "failed"]
    /\ frame' = NoFrame

\* except Exception as e: status = "failed", error = str(e)
conduct_research_except(cause) ==
    /\ active_research_tasks' =
           [active_research_tasks EXCEPT ![frame.id].status = "failed",
                                         ![frame.id].error = cause]
    /\ frame' = NoFrame

\* conduct_research_start without the status update
conduct_research_start_no_update(research_id) ==
    /\ LoopFree
    /\ research_id \in queued
    /\ queued' = queued \ {research_id}
    /\ active_research_tasks' = active_research_tasks
    /\ frame' = [NoFrame EXCEPT !.id = research_id, !.pc = "generate",
                                !.user_id = active_research_tasks[research_id].user_id,
                                !.topic = active_research_tasks[research_id].topic]
    /\ UNCHANGED <<research_reports, next_id, resp, pdf_files>>

\* conduct_research_start that leaves the task in the queue, so that it is
\* run again
conduct_research_start_again(research_id) ==
    /\ LoopFree
    /\ research_id \in queued
    /\ queued' = queued
    /\ active_research_tasks' =
           [active_research_tasks EXCEPT ![research_id].status = "processing"]
    /\ frame' = [NoFrame EXCEPT !.id = research_id, !.pc = "generate",
                                !.user_id = active_research_tasks[research_id].user_id,
                                !.topic = active_research_tasks[research_id].topic]
    /\ UNCHANGED <<research_reports, next_id, resp, pdf_files>>

\* the background task starts: status = "processing"
conduct_research_start(research_id) ==
    /\ LoopFree
    /\ research_id \in queued
    /\ queued' = queued \ {research_id}
    /\ active_research_tasks' =
           [active_research_tasks EXCEPT ![research_id].status = "processing"]
    /\ frame' = [NoFrame EXCEPT !.id = research_id, !.pc = "generate",
                                !.user_id = active_research_tasks[research_id].user_id,
                                !.topic = active_research_tasks[research_id].topic]
    /\ UNCHANGED <<research_reports, next_id, resp, pdf_files>>

\* generate_content_stream returns the chunks of raw, collected in full_response
conduct_research_generate(raw) ==
    /\ frame.pc = "generate"
    /\ frame' = [frame EXCEPT !.pc = "parse", !.full_response = raw]
    /\ UNCHANGED <<active_research_tasks, research_reports, queued, next_id, resp, pdf_files>>

\* the model service raises
conduct_research_generate_raises ==
    /\ frame.pc = "generate"
    /\ conduct_research_except("ModelUnavailable")
    /\ UNCHANGED <<research_reports, queued, next_id, resp, pdf_files>>

\* success, result = parse_json(full_response)
conduct_research_parse ==
    /\ frame.pc = "parse"
    /\ \E p \in {parse_json(frame.full_response)} :
           frame' = [frame EXCEPT !.pc = "build", !.success = p.success,
                                  !.result = p.result, !.stage = p.stage]
    /\ UNCHANGED <<active_research_tasks, research_reports, queued, next_id, resp, pdf_files>>

\* the fallback when parsing failed, then the report object; result.get
\* raises AttributeError when result is not a dict
conduct_research_build ==
    /\ frame.pc = "build"
    /\ \E result \in { IF frame.success THEN frame.result
                       ELSE fallback_result(frame.full_response) } :
           IF result.t = "obj"
           THEN /\ frame' = [frame EXCEPT
                                !.pc = "insert",
                                !.result = result,
                                !.report = <<build_report(frame.id, frame.user_id,
                                                          frame.topic, result)>>]
                /\ UNCHANGED active_research_tasks
           ELSE conduct_research_except("AttributeError")
    /\ UNCHANGED <<research_reports, queued, next_id, resp, pdf_files>>

\* conduct_research_insert that sets the status and stores nothing
conduct_research_insert_unsaved ==
    /\ frame.pc = "insert"
    /\ research_reports' = research_reports
    /\ active_research_tasks' =
           [active_research_tasks EXCEPT ![frame.id].status = "completed"]
    /\ frame' = NoFrame
    /\ UNCHANGED <<queued, next_id, resp, pdf_files>>

\* supabase insert succeeds: the row is stored, status = "completed"
conduct_research_insert ==
    /\ frame.pc = "insert"
    /\ research_reports' =
           [i \in DOMAIN research_reports \cup {frame.id} |->
               IF i = frame.id THEN frame.report[1] ELSE research_reports[i]]
    /\ active_research_tasks' =
           [active_research_tasks EXCEPT ![frame.id].status = "completed"]
    /\ frame' = NoFrame
    /\ UNCHANGED <<queued, next_id, resp, pdf_files>>

\* supabase insert raises
conduct_research_insert_raises ==
    /\ frame.pc = "insert"
    /\ conduct_research_except("StoreError")
    /\ UNCHANGED <<research_reports, queued, next_id, resp, pdf_files>>

(***************************************************************************)
(* Request handlers.  Each is a coroutine without an await: it runs from   *)
(* its first statement to its response while it holds the event loop.      *)
(* store_ok = FALSE is the store call raising.                             *)
(***************************************************************************)
StillInProgress(id) ==
    Known(id) /\ active_research_tasks[id].status # "completed"

\* get_research_status that asks the store for any row of the id, deleted
\* or not, when the id is not in memory
get_research_status_any_row(id, user, store_ok) ==
    /\ LoopFree
    /\ resp' =
         IF ~Known(id)
         THEN IF ~store_ok
              THEN Response("status", id, user, 500, "Internal Server Error")
              ELSE IF Stored(id) /\ research_reports[id].user_id = user
              THEN [Response("status", id, user, 200, "") EXCEPT !.status = "completed"]
              ELSE Response("status", id, user, 404, "Research task not found")
         ELSE IF active_research_tasks[id].user_id # user
              THEN Response("status", id, user, 403, "Access denied")
              ELSE [Response("status", id, user, 200, "") EXCEPT
                        !.status = active_research_tasks[id].status]
    /\ UNCHANGED <<active_research_tasks, research_reports, queued, frame, next_id, pdf_files>>

get_research_status(id, user, store_ok) ==
    /\ LoopFree
    /\ resp' =
         IF ~Known(id)
         THEN IF ~store_ok
              THEN Response("status", id, user, 500, "Internal Server Error")
              ELSE IF select_report(id, user) # <<>>
              THEN [Response("status", id, user, 200, "") EXCEPT !.status = "completed"]
              ELSE Response("status", id, user, 404, "Research task not found")
         ELSE IF active_research_tasks[id].user_id # user
              THEN Response("status", id, user, 403, "Access denied")
              ELSE [Response("status", id, user, 200, "") EXCEPT
                        !.status = active_research_tasks[id].status]
    /\ UNCHANGED <<active_research_tasks, research_reports, queued, frame, next_id, pdf_files>>

\* json.loads of a field when it is a str (isinstance(field, str)); a field of
\* another type is taken as it is
load_field(v) == IF v.t = "str" THEN json_loads(v.s) ELSE [ok |-> TRUE, val |-> v]

\* the try block of get_research_report: sections, then sources; when a
\* json.loads raises, the bare except passes and the fields stay as they
\* are at that point
report_fields(report_data) ==
    Only({ IF ~sec.ok THEN report_data
           ELSE Only({ IF ~src.ok THEN [report_data EXCEPT !.sections = sec.val]
                       ELSE [report_data EXCEPT !.sections = sec.val, !.sources = src.val]
                       : src \in {load_field(report_data.sources)} })
           : sec \in {load_field(report_data.sections)} })

\* the fields get_research_report copies into ReportResponse
report_response(report_data) ==
    [ id |-> report_data.id, topic |-> report_data.topic, summary |-> report_data.summary,
      sections |-> report_data.sections, sources |-> report_data.sources ]

get_research_report(id, user, store_ok) ==
    /\ LoopFree
    /\ resp' =
         IF StillInProgress(id)
         THEN Response("report", id, user, 400, "Research is still in progress")
         ELSE IF ~store_ok
         THEN Response("report", id, user, 500, "Internal Server Error")
         ELSE IF select_report(id, user) = <<>>
         THEN Response("report", id, user, 404, "Research report not found")
         ELSE [Response("report", id, user, 200, "") EXCEPT
                   !.report = <<report_response(report_fields(select_report(id, user)[1]))>>]
    /\ UNCHANGED <<active_research_tasks, research_reports, queued, frame, next_id, pdf_files>>

(***************************************************************************)
(* generate_research_pdf: text helpers                                     *)
(***************************************************************************)
\* a character that str.encode("ascii", "replace") turns into "?": in the
\* model the code points decoded from \uXXXX, those below 0x80 excepted
NonAscii(c) ==
    /\ Len(c) = 6
    /\ c \notin { UniChar("0", "0", a, b) : a \in {"0", "1", "2", "3", "4", "5", "6", "7"},
                                           b \in HexDigit }

\* simple_sanitize on the value of a field: None gives "", a str is encoded
\* with "replace".  str() of a bool is spelled out; str() of a list or a dict
\* is not, and no specification renders a record with such a field
simple_sanitize(text) ==
    CASE text.t = "null" -> <<>>
      [] text.t = "str" -> [i \in 1..Len(text.s) |->
                               IF NonAscii(text.s[i]) THEN "?" ELSE text.s[i]]
      [] text.t = "true" -> <<"T", "r", "u", "e">>
      [] text.t = "false" -> <<"F", "a", "l", "s", "e">>

\* the k-th smallest number of a set
Nth(S, k) == CHOOSE x \in S : Cardinality({y \in S : y < x}) = k - 1

\* the pieces of s around the separators of width w that start at starts
Pieces(s, starts, w) ==
    [k \in 1..(Cardinality(starts) + 1) |->
        SubSeq(s, IF k = 1 THEN 1 ELSE Nth(starts, k - 1) + w,
                  IF k = Cardinality(starts) + 1 THEN Len(s) ELSE Nth(starts, k) - 1)]

\* str.split(c) for a one-character separator
split(s, c) == Pieces(s, {i \in 1..Len(s) : s[i] = c}, 1)

\* number of consecutive newlines directly before position i
NewlineRun(s, i) ==
    (i - 1) - (CHOOSE m \in 0..(i - 1) :
                   /\ (m = 0 \/ s[m] # NL)
                   /\ \A x \in (m + 1)..(i - 1) : s[x] = NL)

\* str.split("\n\n"): the separators are found left to right and do not
\* overlap, so in a run of newlines they start at its even offsets
split_blocks(s) ==
    Pieces(s, {i \in 1..(Len(s) - 1) :
                   s[i] = NL /\ s[i + 1] = NL /\ NewlineRun(s, i) % 2 = 0}, 2)

\* str.startswith(word) and  word in s
startswith(s, word) == Matches(s, 1, word)
Contains(s, word) == \E i \in 1..Len(s) : Matches(s, i, word)

\* "\n".join(lines)
join_lines(lines) ==
    Flatten([k \in 1..Len(lines) |-> IF k = 1 THEN lines[k] ELSE <<NL>> \o lines[k]])

Digits == {"0", "1", "2", "3", "4", "5", "6", "7", "8", "9"}

\* re.match(r"^(\d+)\.", line): the length of group 1, 0 without a match
leading_number(line) ==
    Only({ IF n >= 1 /\ n < Len(line) /\ line[n + 1] = "." THEN n ELSE 0
           : n \in { CHOOSE n \in 0..Len(line) :
                         /\ \A m \in 1..n : line[m] \in Digits
                         /\ (n = Len(line) \/ line[n + 1] \notin Digits) } })

(***************************************************************************)
(* generate_research_pdf: process_markdown                                 *)
(***************************************************************************)
NoMatch == [found |-> FALSE, i |-> 0, j |-> 0, k |-> 0]

\* re.search from position p of  open(G)close  where the group G takes at
\* least `least` characters, none of them `excl`, and as few as it can:
\*   r"\*\*(.*?)\*\*"  is open = close = "**", excl = newline, least = 0
\*   r"\*([^*]+)\*"    is open = close = "*",  excl = "*",     least = 1
\* The match starts at the leftmost i that has a close after it, and ends at
\* the nearest such close, which starts at j.
pair_match(s, p, open, close, excl, least) ==
    LET Closes(i) == {j \in (i + Len(open) + least)..Len(s) :
                         /\ Matches(s, j, close)
                         /\ \A m \in (i + Len(open))..(j - 1) : s[m] # excl}
        starts == {i \in p..Len(s) : Matches(s, i, open) /\ Closes(i) # {}}
    IN  IF starts = {} THEN NoMatch
        ELSE Only({ [found |-> TRUE, i |-> i, j |-> Nth(Closes(i), 1), k |-> 0]
                    : i \in {Nth(starts, 1)} })

\* re.sub(open(G)close, before \1 after, s), from position p on
RECURSIVE re_sub_pair(_, _, _, _, _, _, _, _)
re_sub_pair(s, p, open, close, excl, least, before, after) ==
    Only({ IF ~m.found THEN SubSeq(s, p, Len(s))
           ELSE SubSeq(s, p, m.i - 1) \o before
                \o SubSeq(s, m.i + Len(open), m.j - 1) \o after
                \o re_sub_pair(s, m.j + Len(close), open, close, excl, least, before, after)
           : m \in {pair_match(s, p, open, close, excl, least)} })

\* re.search from position p of r"\[(.*?)\]\((.*?)\)": "[" at i, the nearest
\* "](" at j that has a ")" after it on the same line, the nearest ")" at k
link_match(s, p) ==
    LET Ends(j) == {k \in (j + 2)..Len(s) :
                       s[k] = ")" /\ \A m \in (j + 2)..(k - 1) : s[m] # NL}
        Mids(i) == {j \in (i + 1)..Len(s) :
                       /\ Matches(s, j, <<"]", "(">>)
                       /\ \A m \in (i + 1)..(j - 1) : s[m] # NL
                       /\ Ends(j) # {}}
        starts == {i \in p..Len(s) : s[i] = "[" /\ Mids(i) # {}}
    IN  IF starts = {} THEN NoMatch
        ELSE Only({ Only({ [found |-> TRUE, i |-> i, j |-> j, k |-> Nth(Ends(j), 1)]
                           : j \in {Nth(Mids(i), 1)} })
                    : i \in {Nth(starts, 1)} })

\* re.sub(r"\[(.*?)\]\((.*?)\)", r'<link href="\2">\1</link>', s), from p on
RECURSIVE re_sub_link(_, _)
re_sub_link(s, p) ==
    Only({ IF ~m.found THEN SubSeq(s, p, Len(s))
           ELSE SubSeq(s, p, m.i - 1)
                \o <<"<", "l", "i", "n", "k", " ", "h", "r", "e", "f", "=", DQ>> \o SubSeq(s, m.j + 2, m.k - 1) \o <<DQ, ">">>
                \o SubSeq(s, m.i + 1, m.j - 1) \o <<"<", "/", "l", "i", "n", "k", ">">>
                \o re_sub_link(s, m.k + 1)
           : m \in {link_match(s, p)} })

\* the opening and the closing tag of the paragraph markup
Tag(name) == <<"<">> \o name \o <<">">>
EndTag(name) == <<"<", "/">> \o name \o <<">">>

bold(s) ==
    re_sub_pair(re_sub_pair(s, 1, <<"*", "*">>, <<"*", "*">>, NL, 0, Tag(<<"b">>), EndTag(<<"b">>)),
                1, <<"_", "_">>, <<"_", "_">>, NL, 0, Tag(<<"b">>), EndTag(<<"b">>))

italic(s) ==
    re_sub_pair(re_sub_pair(s, 1, <<"*">>, <<"*">>, "*", 1, Tag(<<"i">>), EndTag(<<"i">>)),
                1, <<"_">>, <<"_">>, "_", 1, Tag(<<"i">>), EndTag(<<"i">>))

inline_code(s) == re_sub_pair(s, 1, <<BT>>, <<BT>>, NL, 0, Tag(<<"c", "o", "d", "e">>), EndTag(<<"c", "o", "d", "e">>))
superscript(s) == re_sub_pair(s, 1, <<"^">>, <<"^">>, NL, 0, Tag(<<"s", "u", "p", "e", "r">>), EndTag(<<"s", "u", "p", "e", "r">>))
subscript(s) == re_sub_pair(s, 1, <<"~">>, <<"~">>, NL, 0, Tag(<<"s", "u", "b">>), EndTag(<<"s", "u", "b">>))
strikethrough(s) == re_sub_pair(s, 1, <<"~", "~">>, <<"~", "~">>, NL, 0, Tag(<<"s", "t", "r", "i", "k", "e">>), EndTag(<<"s", "t", "r", "i", "k", "e">>))

\* italic before bold
process_markdown_italic_first(text) ==
    IF text = <<>> THEN text
    ELSE strikethrough(subscript(superscript(inline_code(re_sub_link(
             bold(italic(text)), 1)))))

\* the substitutions in the order of the code; "if not text: return text"
process_markdown(text) ==
    IF text = <<>> THEN text
    ELSE strikethrough(subscript(superscript(inline_code(re_sub_link(
             italic(bold(text)), 1)))))

(***************************************************************************)
(* generate_research_pdf: the flowables                                    *)
(***************************************************************************)
\* a flowable of the content list; styles carry the name of the variable
\* that holds them in the code, h is a height in hundredths of an inch
Flowable(kind, style, text) ==
    [kind |-> kind, style |-> style, text |-> text, bullet |-> <<>>, rows |-> <<>>, h |-> 0]

Paragraph(text, style) == Flowable("Paragraph", style, text)
Spacer(h) == [Flowable("Spacer", "", <<>>) EXCEPT !.h = h]
PageBreak == Flowable("PageBreak", "", <<>>)
HRFlowable == Flowable("HRFlowable", "", <<>>)
Table(table_data) == [Flowable("Table", "table_style", <<>>) EXCEPT !.rows = table_data]

\* para.startswith("- ") or para.startswith("* ")
is_list_item(s) == startswith(s, <<"-", " ">>) \/ startswith(s, <<"*", " ">>)

\* the lines of a bullet list: an item line gives a bulleted paragraph,
\* another line a normal one, a blank line nothing
bullet_lines(para) ==
    Flatten([k \in 1..Len(split(para, NL)) |->
        Only({ IF strip(line) = <<>> THEN <<>>
               ELSE IF is_list_item(line)
               THEN <<Paragraph(<<"U+2022", " ">> \o process_markdown(SubSeq(line, 3, Len(line))),
                                "list_style")>>
               ELSE <<Paragraph(process_markdown(line), "normal_style")>>
               : line \in {split(para, NL)[k]} })])

\* the lines of a numbered list: NumberedList{num} is list_style with
\* bulletText "{num}."
numbered_lines(para) ==
    Flatten([k \in 1..Len(split(para, NL)) |->
        Only({ IF strip(line) = <<>> THEN <<>>
               ELSE IF leading_number(line) > 0
               THEN Only({ <<[Paragraph(process_markdown(strip(SubSeq(line, n + 2, Len(line)))),
                                        "num_style")
                                  EXCEPT !.bullet = SubSeq(line, 1, n) \o <<".">>]>>
                           : n \in {leading_number(line)} })
               ELSE <<Paragraph(process_markdown(line), "normal_style")>>
               : line \in {split(para, NL)[k]} })])

\* the text of a blockquote: ">" and the blanks around the rest are taken
\* off the lines that start with ">"
blockquote_text(para) ==
    join_lines([k \in 1..Len(split(para, NL)) |->
        Only({ IF startswith(line, <<">">>) THEN strip(SubSeq(line, 2, Len(line))) ELSE line
               : line \in {split(para, NL)[k]} })])

NonEmpty(seq) == seq # <<>>

\* [cell.strip() for cell in row.split("|") if cell.strip()]
cells(row) ==
    SelectSeq([k \in 1..Len(split(row, "|")) |-> strip(split(row, "|")[k])], NonEmpty)

\* [row.strip() for row in para.split("\n") if row.strip()]
table_rows(para) ==
    SelectSeq([k \in 1..Len(split(para, NL)) |-> strip(split(para, NL)[k])], NonEmpty)

\* the header row and the data rows that have a cell; rows[1] is the
\* separator and is skipped
table_data(rows) ==
    <<cells(rows[1])>>
    \o SelectSeq([k \in 1..(Len(rows) - 2) |-> cells(rows[k + 2])], NonEmpty)

\* Table(table_data) raises for a table without a column (reportlab: "must
\* have at least a row and column"); short rows are padded
table_raises(data) == \A r \in 1..Len(data) : data[r] = <<>>

\* the table branch: with three rows or more that all hold "|" a table
\* between two spacers; with fewer rows, or when Table raises and the
\* exception is printed, nothing is appended
table_block(para) ==
    Only({ IF Len(rows) >= 3 /\ \A r \in 1..Len(rows) : Contains(rows[r], <<"|">>)
           THEN IF table_raises(table_data(rows)) THEN <<>>
                ELSE <<Spacer(10), Table(table_data(rows)), Spacer(20)>>
           ELSE <<>>
           : rows \in {table_rows(para)} })

\* the summary loop: a block is a bullet list or a paragraph
summary_kind(para) == IF is_list_item(para) THEN "list" ELSE "paragraph"

\* the if/elif chain of the section loop, first condition that holds
section_kind(para) ==
    IF startswith(para, <<"#", " ">>) THEN "h1"
    ELSE IF startswith(para, <<"#", "#", " ">>) THEN "h2"
    ELSE IF startswith(para, <<"#", "#", "#", " ">>) THEN "h3"
    ELSE IF is_list_item(para) THEN "list"
    ELSE IF leading_number(para) > 0 THEN "numbered"
    ELSE IF startswith(para, <<">">>) THEN "blockquote"
    ELSE IF /\ Contains(para, <<"|">>)
            /\ (Contains(para, <<"-", "-", "-">>) \/ Contains(para, <<"-", "+", "-">>))
    THEN "table"
    ELSE "paragraph"

\* what one block of the summary appends
summary_block(para) ==
    IF strip(para) = <<>> THEN <<>>
    ELSE IF summary_kind(para) = "list" THEN bullet_lines(para)
    ELSE <<Paragraph(process_markdown(para), "normal_style")>>

\* what one block of a section's content appends
section_block(para) ==
    IF strip(para) = <<>> THEN <<>>
    ELSE Only({
        CASE kind = "h1" ->
               <<Paragraph(process_markdown(SubSeq(para, 3, Len(para))), "h1_style"), Spacer(10)>>
          [] kind = "h2" ->
               <<Paragraph(process_markdown(SubSeq(para, 4, Len(para))), "h2_style"), Spacer(5)>>
          [] kind = "h3" ->
               <<Paragraph(process_markdown(SubSeq(para, 5, Len(para))), "h3_style"), Spacer(5)>>
          [] kind = "list" -> Append(bullet_lines(para), Spacer(5))
          [] kind = "numbered" -> Append(numbered_lines(para), Spacer(5))
          [] kind = "blockquote" ->
               <<Paragraph(process_markdown(blockquote_text(para)), "blockquote_style"),
                 Spacer(10)>>
          [] kind = "table" -> table_block(para)
          [] kind = "paragraph" -> <<Paragraph(process_markdown(para), "normal_style")>>
        : kind \in {section_kind(para)} })

\* summary.split("\n\n") through the summary loop
summary_flowables(summary) ==
    Flatten([k \in 1..Len(split_blocks(summary)) |-> summary_block(split_blocks(summary)[k])])

\* section_content.split("\n\n") through the section loop
content_flowables(section_content) ==
    Flatten([k \in 1..Len(split_blocks(section_content)) |->
                section_block(split_blocks(section_content)[k])])

DEFAULT_CONTENT == <<"N", "o", " ", "c", "o", "n", "t", "e", "n", "t", " ", "a", "v", "a", "i", "l", "a", "b", "l", "e">>

\* one pass of "for section in ...": page break, title, content
section_flowables(section) ==
    << PageBreak, Spacer(10),
       Paragraph(simple_sanitize(Get(section, K_title, JStr(<<"U", "n", "t", "i", "t", "l", "e", "d", " ", "S", "e", "c", "t", "i", "o", "n">>))),
                 "section_title_style"),
       Spacer(20) >>
    \o content_flowables(simple_sanitize(Get(section, K_content, JStr(DEFAULT_CONTENT))))

\* str(n) for the numbers of the sources
Decimal(n) ==
    LET d == <<"0", "1", "2", "3", "4", "5", "6", "7", "8", "9">>
    IN  IF n < 10 THEN <<d[n + 1]>> ELSE <<d[(n \div 10) + 1], d[(n % 10) + 1]>>

K_snippet == <<"s", "n", "i", "p", "p", "e", "t">>

\* bool(v) of Python for a JSON value
Truthy(v) ==
    CASE v.t = "str" -> v.s # <<>>
      [] v.t = "arr" -> v.v # <<>>
      [] v.t = "obj" -> v.k # <<>>
      [] v.t = "true" -> TRUE
      [] OTHER -> FALSE

\* url[:77] + "..." past 80 characters, snippet[:297] + "..." past 300
truncate(s, limit) ==
    IF Len(s) > limit THEN SubSeq(s, 1, limit - 3) \o TRUNCATION_MARKER ELSE s

\* one pass of "for i, source in enumerate(sources)"; n is i + 1
source_flowables(source, n) ==
    << Paragraph(Decimal(n) \o <<".", " ">>
                 \o simple_sanitize(Get(source, K_title, JStr(<<"S", "o", "u", "r", "c", "e", " ">> \o Decimal(n)))),
                 "source_box_style") >>
    \o Only({ <<Paragraph(<<"U", "R", "L", ":", " ", "<", "l", "i", "n", "k", " ", "h", "r", "e", "f", "=", "'">> \o url \o <<"'", ">">> \o url \o <<"<", "/", "l", "i", "n", "k", ">">>,
                          "url_style")>>
              : url \in {truncate(simple_sanitize(Get(source, K_url, JStr(<<"N", "o", " ", "U", "R", "L", " ", "p", "r", "o", "v", "i", "d", "e", "d">>))), 80)} })
    \o (IF Truthy(Get(source, K_snippet, JNull))
        THEN <<Paragraph(<<"<", "i", ">", "D", "e", "s", "c", "r", "i", "p", "t", "i", "o", "n", ":", "<", "/", "i", ">", " ">>
                         \o truncate(simple_sanitize(Get(source, K_snippet, JStr(<<>>))), 300),
                         "source_style")>>
        ELSE <<>>)
    \o <<Spacer(20)>>

\* "for x in v" followed by x.get(...): it goes through when v is a list of
\* dicts, or an empty str or dict; a str or dict with something in it
\* yields str items, which have no get, and None or a bool is not iterable
Iterable(v) ==
    CASE v.t = "arr" -> \A i \in 1..Len(v.v) : v.v[i].t = "obj"
      [] v.t = "str" -> v.s = <<>>
      [] v.t = "obj" -> v.k = <<>>
      [] OTHER -> FALSE


\* the content list handed to doc.build, ok = FALSE when building it raises
generate_research_pdf(report_data) ==
    IF \/ ~Iterable(report_data.sections)
       \/ (Truthy(report_data.sources) /\ ~Iterable(report_data.sources))
    THEN [ok |-> FALSE, content |-> <<>>]
    ELSE [ok |-> TRUE,
          content |->
            << Spacer(20), Paragraph(<<report_data.topic>>, "title_style"),
               Paragraph(<<"G", "e", "n", "e", "r", "a", "t", "e", "d", " ", "o", "n", ":", " ">>, "date_style"), Spacer(30), HRFlowable >>
            \o summary_flowables(simple_sanitize(report_data.summary))
            \o <<Spacer(20)>>
            \o Flatten([i \in 1..Len(report_data.sections.v) |->
                           section_flowables(report_data.sections.v[i])])
            \o <<PageBreak, Spacer(10), Paragraph(<<"S", "o", "u", "r", "c", "e", "s">>, "sources_title_style"),
                 Spacer(20)>>
            \o (IF ~Truthy(report_data.sources)
                THEN <<Paragraph(<<"N", "o", " ", "s", "o", "u", "r", "c", "e", "s", " ", "a", "v", "a", "i", "l", "a", "b", "l", "e">>, "normal_style")>>
                ELSE Flatten([i \in 1..Len(report_data.sources.v) |->
                                 source_flowables(report_data.sources.v[i], i)])) ]

(***************************************************************************)
(* get_research_pdf and the temporary files                                *)
(***************************************************************************)
\* f"temp_{research_id}_{uuid.uuid4().hex[:8]}.pdf": the research id and a
\* token drawn for this request; tokens are taken as never drawn twice
temp_path(research_id, token) == <<research_id, token>>

\* if the file exists it is removed, without it nothing happens
os_remove_skipped(files, path) == files

\* if os.path.exists(path): os.remove(path)
os_remove(files, path) == files \ {path}

\* what doc.build does with the file at pdf_path once the content list
\* is there (when making the list raises, nothing has been written)
\*   "built":   the document is built and written
\*   "raises":  it raises before anything is written
\*   "partial": it raises with the file already created
RenderOutcomes == {"built", "raises", "partial"}

\* lines 217-220 of get_research_pdf: both fields, the first failure raises
pdf_fields(report_data) ==
    Only({ Only({ IF sec.ok /\ src.ok
                  THEN [ok |-> TRUE,
                        data |-> [report_data EXCEPT !.sections = sec.val,
                                                     !.sources = src.val]]
                  ELSE [ok |-> FALSE, data |-> report_data]
                  : src \in {load_field(report_data.sources)} })
           : sec \in {load_field(report_data.sections)} })

get_research_pdf(id, user, store_ok, render) ==
    /\ LoopFree
    /\ IF StillInProgress(id)
       THEN /\ resp' = Response("pdf", id, user, 400, "Research is still in progress")
            /\ UNCHANGED pdf_files
       ELSE IF ~store_ok
       THEN /\ resp' = Response("pdf", id, user, 500, "Failed to generate PDF: StoreError")
            /\ UNCHANGED pdf_files
       ELSE IF select_report(id, user) = <<>>
       THEN /\ resp' = Response("pdf", id, user, 500,
                                "Failed to generate PDF: 404: Research report not found")
            /\ UNCHANGED pdf_files
       ELSE IF ~pdf_fields(select_report(id, user)[1]).ok
       THEN /\ resp' = Response("pdf", id, user, 500,
                                "Failed to generate PDF: JSONDecodeError")
            /\ UNCHANGED pdf_files
       ELSE \E pdf_path \in {temp_path(id, next_token + 1)},
               doc \in {generate_research_pdf(pdf_fields(select_report(id, user)[1]).data)} :
              /\ next_token < MaxPdfs
              /\ next_token' = next_token + 1
              /\ IF doc.ok /\ render = "built"
                 THEN /\ temp_files' = temp_files \cup {pdf_path}
                      /\ sending' = sending \cup {pdf_path}
                      /\ resp' = [Response("pdf", id, user, 200, "application/pdf") EXCEPT
                                     !.path = <<pdf_path>>, !.document = doc.content]
                 ELSE \* except Exception: the file is removed if it exists
                      /\ temp_files' =
                             os_remove(IF doc.ok /\ render = "partial"
                                       THEN temp_files \cup {pdf_path} ELSE temp_files,
                                       pdf_path)
                      /\ UNCHANGED sending
                      /\ resp' = Response("pdf", id, user, 500,
                                          "Failed to generate PDF: RenderError")
    /\ UNCHANGED <<active_research_tasks, research_reports, queued, frame, next_id>>

\* the body of a FileResponse has been transmitted; its background task
\* cleanup_temp_file(pdf_path) runs
file_response_sent(path) ==
    /\ LoopFree
    /\ path \in sending
    /\ sending' = sending \ {path}
    /\ temp_files' = os_remove(temp_files, path)
    /\ UNCHANGED <<active_research_tasks, research_reports, queued, frame, next_id, resp,
                   next_token>>

\* delete_research_report that also drops the entry of the task map
delete_research_report_forgets(id, user, select_ok, update_ok) ==
    /\ LoopFree
    /\ IF ~select_ok
       THEN /\ resp' = Response("delete", id, user, 500,
                                "Failed to delete research report: StoreError")
            /\ UNCHANGED <<research_reports, active_research_tasks>>
       ELSE IF select_report(id, user) = <<>>
       THEN /\ resp' = Response("delete", id, user, 500,
                                "Failed to delete research report: 404: Research report not found")
            /\ UNCHANGED <<research_reports, active_research_tasks>>
       ELSE IF ~update_ok
       THEN /\ resp' = Response("delete", id, user, 500,
                                "Failed to delete research report: StoreError")
            /\ UNCHANGED <<research_reports, active_research_tasks>>
       ELSE /\ research_reports' = [research_reports EXCEPT ![id].deleted = TRUE]
            /\ active_research_tasks' =
                   [i \in DOMAIN active_research_tasks \ {id} |-> active_research_tasks[i]]
            /\ resp' = Response("delete", id, user, 200,
                                "Research report deleted successfully")
    /\ UNCHANGED <<queued, frame, next_id, pdf_files>>

\* select_ok / update_ok = FALSE: the select / the update raises
delete_research_report(id, user, select_ok, update_ok) ==
    /\ LoopFree
    /\ IF ~select_ok
       THEN /\ resp' = Response("delete", id, user, 500,
                                "Failed to delete research report: StoreError")
            /\ UNCHANGED research_reports
       ELSE IF select_report(id, user) = <<>>
       THEN /\ resp' = Response("delete", id, user, 500,
                                "Failed to delete research report: 404: Research report not found")
            /\ UNCHANGED research_reports
       ELSE IF ~update_ok
       THEN /\ resp' = Response("delete", id, user, 500,
                                "Failed to delete research report: StoreError")
            /\ UNCHANGED research_reports
       ELSE /\ research_reports' = [research_reports EXCEPT ![id].deleted = TRUE]
            /\ resp' = Response("delete", id, user, 200,
                                "Research report deleted successfully")
    /\ UNCHANGED <<active_research_tasks, queued, frame, next_id, pdf_files>>

\* the process stops and starts again: the task map and the background tasks
\* are gone, the table stays, ids already issued are not issued again
Restart ==
    /\ active_research_tasks' = <<>>
    /\ queued' = {}
    /\ frame' = NoFrame
    /\ resp' = NoResp
    /\ sending' = {}
    /\ UNCHANGED <<research_reports, next_id, temp_files, next_token>>

(***************************************************************************)
(* Specifications                                                          *)
(***************************************************************************)
Submit == \E user \in Users, topic \in Topics : request_research(user, topic)
Start == \E id \in Ids : conduct_research_start(id)
GetStatus == \E id \in Ids, user \in Users, store_ok \in BOOLEAN :
                 get_research_status(id, user, store_ok)
GetReport == \E id \in Ids, user \in Users, store_ok \in BOOLEAN :
                 get_research_report(id, user, store_ok)
GetPdf == \E id \in Ids, user \in Users, store_ok \in BOOLEAN, render \in RenderOutcomes :
              get_research_pdf(id, user, store_ok, render)
FileSent == \E path \in sending : file_response_sent(path)
Delete == \E id \in Ids, user \in Users, select_ok \in BOOLEAN, update_ok \in BOOLEAN :
              delete_research_report(id, user, select_ok, update_ok)

\* the steps of the running conduct_research call after the model answered
TaskSteps ==
    \/ conduct_research_generate_raises
    \/ conduct_research_parse
    \/ conduct_research_build
    \/ conduct_research_insert
    \/ conduct_research_insert_raises

Generate == \E raw \in SysRaws : conduct_research_generate(raw)

Next ==
    \/ Submit
    \/ Start
    \/ Generate
    \/ TaskSteps
    \/ GetStatus
    \/ GetReport
    \/ GetPdf
    \/ FileSent
    \/ Delete
    \/ Restart

Spec == Init /\ [][Next]_vars

(***************************************************************************)
(* The normalizer on many raw texts: one task, the model answer drawn from *)
(* NormRaws, no other request.                                             *)
(***************************************************************************)
SEC_C == Section(<<"v">>, <<BSL, "x">>)
K_extra == <<"e", "x", "t", "r", "a">>

\* JSON objects that have the keys summary, sections and sources
ReportValues ==
    { REPORT_A,
      Report(<<>>, <<>>, <<>>),
      Report(<<"a", "/", "b">>, <<SEC_A, SEC_B>>, <<SRC_A>>),
      Report(<<"a", "/", "b">>, <<SEC_B, SEC_A>>, <<SRC_A>>),
      Report(<<"U+acce", "\t">>, <<SEC_C>>, <<SRC_A, SRC_A>>),
      JObj(<<K_sources, K_extra, K_summary, K_sections>>,
           <<JArr(<<SRC_A>>), JLit("true"), JStr(<<"z">>), JArr(<<SEC_A>>)>>),
      JObj(<<K_summary, K_sections, K_sources>>, <<JArr(<<>>), JStr(<<"x">>), JNull>>) }

PadBefore == {<<>>, <<" ">>, <<NL, " ">>}
PadAfter == {<<>>, <<NL>>, <<" ", NL>>}

\* texts spelled by hand, not in the form json.dumps writes: no spaces after
\* the separators, \/ and \u escapes, a key given twice
HandTexts ==
    { [ text |-> <<"{", DQ>> \o K_summary \o <<DQ, ":", DQ, "a", BSL, "/", "b", DQ, ",", NL, DQ>>
                 \o K_sections \o <<DQ, ":", "[", " ", "]", ",", DQ>> \o K_sources
                 \o <<DQ, " ", ":", "[", "]", "}">>,
        val |-> Report(<<"a", "/", "b">>, <<>>, <<>>) ],
      [ text |-> <<"{", DQ>> \o K_summary \o <<DQ, ":", DQ, BSL, "u", "A", "c", "C", "e", DQ, ",", DQ>>
                 \o K_sections \o <<DQ, ":", "[", "]", ",", DQ>> \o K_sources
                 \o <<DQ, ":", "[", "]", ",", DQ>> \o K_summary \o <<DQ, ":", DQ, "y", DQ, "}">>,
        val |-> Report(<<"y">>, <<>>, <<>>) ] }

\* raw texts that are a JSON object with the three keys, with the object
\* they spell
ObjectTexts ==
    { [text |-> a \o json_dumps(val) \o b, val |-> val] :
          val \in ReportValues, a \in PadBefore, b \in PadAfter }
    \cup HandTexts

FENCE == <<BT, BT, BT>>
TAG_JSON == <<"j", "s", "o", "n">>

ProseBefore ==
    { <<>>,
      <<"H", "e", "r", "e", ":", NL>>,
      <<"a", " ", "{", "x", "}", " ">>,
      <<DQ>>,
      <<"s", "e", "e", " ", BT>>,
      FENCE \o <<" ", "x", " ">> \o FENCE \o <<NL>> }

ProseAfter ==
    { <<>>,
      <<NL, "d", "o", "n", "e">>,
      <<" ", "}">>,
      <<DQ>>,
      <<" ">> \o FENCE }

\* JSON objects put inside a fence
FencedValues ==
    { REPORT_A,
      Report(<<"a", "/", "b">>, <<SEC_A, SEC_B>>, <<SRC_A>>),
      JObj(<<>>, <<>>),
      Report(FENCE, <<>>, <<>>) }

\* prose, a fenced block (with or without the tag json) around a JSON
\* object, prose
FencedTexts ==
    { [ text |-> pre \o FENCE \o tag \o gap \o json_dumps(val) \o gap \o FENCE \o post,
        val |-> val, pre |-> pre ] :
          pre \in ProseBefore, tag \in {<<>>, TAG_JSON}, gap \in {<<>>, <<NL>>},
          val \in FencedValues, post \in ProseAfter }

Xs(n) == [i \in 1..n |-> "x"]

\* raw texts without any brace
NoBraceTexts ==
    { <<>>,
      <<"o", "o", "p", "s">>,
      <<" ", NL>>,
      RAW_LIST,
      <<DQ, "a", DQ>>,
      <<"n", "u", "l", "l">>,
      <<"[", DQ, "a", DQ, ",", " ", "[", "]", "]", NL>>,
      FENCE \o TAG_JSON \o <<NL, "[", "]", NL>> \o FENCE,
      FENCE \o <<"o", "o", "p", "s">> \o FENCE,
      Xs(RAW_LIMIT - 1),
      Xs(RAW_LIMIT),
      Xs(RAW_LIMIT + 1),
      Xs(RAW_LIMIT + 3) }

\* objects without the three keys, invalid escapes, broken objects
MiscTexts ==
    { <<"{", "}">>,
      <<"{", DQ>> \o K_summary \o <<DQ, ":", " ", "[", "]", "}">>,
      <<"{", DQ>> \o K_summary \o <<DQ, ":", " ", DQ, "a", BSL, "x", DQ, "}">>,
      <<"{", DQ>> \o K_summary \o <<DQ, ":", " ", DQ, "a", NL, "b", DQ, "}">>,
      FENCE \o <<"{", DQ>> \o K_summary \o <<DQ, ":", DQ, BSL, "p", DQ, "}">> \o FENCE,
      <<"x", BSL, " ", "{", DQ>> \o K_summary \o <<DQ, ":", DQ, BSL, "p", DQ, "}", " ", "y">>,
      <<"{", "o", "o", "p", "s", "}">>,
      <<"}", " ", "{">>,
      <<"{">> \o Xs(RAW_LIMIT),
      <<"{", DQ>> \o K_summary \o <<DQ, ":">>,
      <<"{", BSL, "u", "A", "c", "}", "C", "e">>,
      <<"{", BSL, "}", " ", BSL>> }

NormRaws ==
    {c.text : c \in ObjectTexts} \cup {f.text : f \in FencedTexts}
    \cup NoBraceTexts \cup MiscTexts

SubmitFirst == next_id = 0 /\ Submit
NormGenerate == \E raw \in NormRaws : conduct_research_generate(raw)

NormNext ==
    \/ SubmitFirst
    \/ Start
    \/ NormGenerate
    \/ TaskSteps

NormSpec == Init /\ [][NormNext]_vars

(***************************************************************************)
(* Fair scheduling of the background tasks while the process lives: a task *)
(* that was added is started, the calls to the model service and to the    *)
(* store return or raise, and the statements between them run.             *)
(***************************************************************************)
ModelAnswers == Generate \/ conduct_research_generate_raises
StoreAnswers == conduct_research_insert \/ conduct_research_insert_raises

LiveNext ==
    \/ Submit
    \/ Start
    \/ ModelAnswers
    \/ conduct_research_parse
    \/ conduct_research_build
    \/ StoreAnswers
    \/ GetStatus

LiveSpec ==
    /\ Init
    /\ [][LiveNext]_vars
    /\ \A id \in Ids : WF_vars(conduct_research_start(id))
    /\ WF_vars(ModelAnswers)
    /\ WF_vars(conduct_research_parse)
    /\ WF_vars(conduct_research_build)
    /\ WF_vars(StoreAnswers)

(***************************************************************************)
(* The documents: one task whose model answer is drawn from PdfRaws, then  *)
(* the readers of the stored report while the process lives.               *)
(***************************************************************************)
\* the inline example:  **a** and *b* and [c](http://x) and (backtick)d(backtick)
BLK_INLINE ==
    <<"*", "*", "a", "*", "*", " ", "a", "n", "d", " ", "*", "b", "*", " ", "a", "n", "d", " ", "[", "c", "]", "(", "h", "t", "t", "p", ":", "/", "/", "x", ")", " ", "a", "n", "d", " ", BT, "d", BT>>

\* blocks of markdown that the renderer takes apart
Blocks ==
    { \* a table of a header and one row
      <<"a", " ", "|", " ", "b", NL, "-", "-", "-", "|", "-", "-", "-", NL, "c", " ", "|", " ", "d">>,
      \* table candidates: two rows; a row without a bar; no cell
      <<"a", " ", "|", " ", "b", NL, "-", "-", "-">>,
      <<"a", " ", "|", " ", "b", NL, "-", "-", "-", NL, "c">>,
      <<"|", NL, "|", "-", "-", "-", NL, "|">>,
      \* ~~x~~ and ~x~
      <<"~", "~", "x", "~", "~">>,
      <<"~", "x", "~">>,
      \* # x, ## x, ### x, #### x
      <<"#", " ", "x">>,
      <<"#", "#", " ", "x">>,
      <<"#", "#", "#", " ", "x">>,
      <<"#", "#", "#", "#", " ", "x">>,
      \* a bullet list, a numbered list, a blockquote
      <<"-", " ", "x", NL, "y">>,
      <<"1", ".", " ", "x", NL, "2", ".", " ", "y">>,
      <<">", " ", "q">>,
      BLK_INLINE,
      \* *a **b** c*, **a**, __a__ and z
      <<"*", "a", " ", "*", "*", "b", "*", "*", " ", "c", "*">>,
      <<"*", "*", "a", "*", "*">>,
      <<"_", "_", "a", "_", "_">>,
      <<"z">> }

\* a text of one block, or of a block and a plain one after a blank line
PdfTexts == Blocks \cup { b \o <<NL, NL, "z">> : b \in Blocks }

\* the same text as summary and as content of the one section
PdfReports == { Report(t, <<Section(<<"t">>, t)>>, <<SRC_A>>) : t \in PdfTexts }

\* an answer whose sections are a text, which is stored as it is
RAW_TEXT_SECTIONS ==
    json_dumps(JObj(<<K_summary, K_sections, K_sources>>,
                    <<JStr(<<"s">>), JStr(<<"x">>), JArr(<<>>)>>))

PdfRaws == {RAW_REPORT, RAW_TEXT_SECTIONS} \cup { json_dumps(r) : r \in PdfReports }

PdfGenerate == \E raw \in PdfRaws : conduct_research_generate(raw)

PdfNext ==
    \/ SubmitFirst
    \/ Start
    \/ PdfGenerate
    \/ TaskSteps
    \/ GetReport
    \/ GetPdf
    \/ FileSent

PdfSpec == Init /\ [][PdfNext]_vars

(***************************************************************************)
(* The table and the task map: the tasks with an answer that parses, one   *)
(* that is no object, one without the three keys and one that does not     *)
(* parse, the soft delete and the process starting again.                  *)
(***************************************************************************)
StoreRaws == {RAW_REPORT, RAW_LIST, <<"{", "}">>, <<"o", "o", "p", "s">>}

StoreGenerate == \E raw \in StoreRaws : conduct_research_generate(raw)

StoreNext ==
    \/ Submit
    \/ Start
    \/ StoreGenerate
    \/ TaskSteps
    \/ Delete
    \/ Restart

StoreSpec == Init /\ [][StoreNext]_vars

(***************************************************************************)
(* Properties                                                              *)
(***************************************************************************)
StatusOf(id) == active_research_tasks[id].status
Terminal(id) == Known(id) /\ StatusOf(id) \in {"completed", "failed"}
InFlight(id) == Known(id) /\ StatusOf(id) \in {"in_progress", "processing"}

\* C1: task lifecycle.  In every step, an entry that appears has status
\* in_progress, and an entry that stays either keeps its status or goes from
\* in_progress to processing or from processing to completed or failed.
C1_TaskLifecycle ==
    [][\A id \in Ids :
          /\ (id \notin DOMAIN active_research_tasks /\ id \in DOMAIN active_research_tasks')
                => active_research_tasks'[id].status = "in_progress"
          /\ (id \in DOMAIN active_research_tasks /\ id \in DOMAIN active_research_tasks')
                => LET a == active_research_tasks[id].status
                       b == active_research_tasks'[id].status
                   IN  \/ a = b
                       \/ a = "in_progress" /\ b = "processing"
                       \/ a = "processing" /\ b \in {"completed", "failed"}]_vars

\* one task went all the way to completed and another one to failed
C1_Witness ==
    \E i \in Ids, j \in Ids :
        /\ Known(i) /\ StatusOf(i) = "completed"
        /\ Known(j) /\ StatusOf(j) = "failed"

\* the task or the stored report of id belongs to somebody else than user
OwnedByOther(id, user) ==
    \/ Known(id) /\ active_research_tasks[id].user_id # user
    \/ Stored(id) /\ research_reports[id].user_id # user

\* the response is the store call failing
StoreFailed(r) ==
    r.detail \in { "Internal Server Error",
                   "Failed to generate PDF: StoreError",
                   "Failed to delete research report: StoreError" }

\* the response says not found: a 404, or the 500 that wraps the 404
SaysNotFound(r) ==
    \/ r.code = 404
    \/ r.detail \in { "Failed to generate PDF: 404: Research report not found",
                      "Failed to delete research report: 404: Research report not found" }

\* C2: access control.  A response to getStatus, getReport or delete for an
\* id owned by another identity is AccessDenied or not-found (or the failure
\* of the store call): never data, a lifecycle state, the still-in-progress
\* signal or a delete acknowledgement.
C2_AccessControl ==
    (resp.op \in {"status", "report", "delete"} /\ OwnedByOther(resp.id, resp.user))
        => (resp.code = 403 \/ SaysNotFound(resp) \/ StoreFailed(resp))

\* C3: malformed model output is never a hard failure.  A task is failed
\* only because the model service or the store insert raised, never because
\* of what the raw text contains.
C3_NoHardFailure ==
    \A id \in Ids :
        (Known(id) /\ StatusOf(id) = "failed")
            => active_research_tasks[id].error \in {"ModelUnavailable", "StoreError"}

\* C4: for a raw text that is a JSON object with the keys summary, sections
\* and sources (whitespace around it allowed), parse_json returns success and
\* the object, members and items in their order; and parse_json of the
\* json.dumps form of any result it returned gives that result again.
C4_ValidJsonRoundTrip ==
    frame.pc = "build" =>
        /\ \A c \in ObjectTexts :
              frame.full_response = c.text => (frame.success /\ frame.result = c.val)
        /\ frame.success =>
              LET again == parse_json(json_dumps(frame.result))
              IN  again.success /\ again.result = frame.result

\* parse_json has answered for a padded object text with two sections
C4_Witness ==
    /\ frame.pc = "build"
    /\ frame.success
    /\ \E c \in ObjectTexts :
          /\ frame.full_response = c.text
          /\ Len(frame.full_response) > Len(json_dumps(c.val))
          /\ Len(Get(c.val, K_sections, JArr(<<>>)).v) = 2

FirstFence(text) ==
    CHOOSE p \in 1..Len(text) : IsFence(text, p) /\ \A m \in 1..(p - 1) : ~IsFence(text, m)

\* the block of f opens with the first triple backtick of the text, the JSON
\* inside holds no triple backtick, and the text as a whole is not JSON
PlainFence(f) ==
    /\ FirstFence(f.text) = Len(f.pre) + 1
    /\ \A p \in 1..Len(json_dumps(f.val)) : ~IsFence(json_dumps(f.val), p)
    /\ ~json_loads(strip(f.text)).ok

\* C5 as claimed: for prose, a fenced block around a JSON object, prose,
\* parse_json returns success and the object inside the fence, whatever the
\* prose contains.
C5_FencedAnyProse ==
    frame.pc = "build" =>
        \A f \in FencedTexts :
            frame.full_response = f.text => (frame.success /\ frame.result = f.val)

\* C5 as amended: the same, for the texts in which the block opens with the
\* first triple backtick, the JSON inside holds no triple backtick, and the
\* whole text is not itself JSON.
C5_FencedFirstBlock ==
    frame.pc = "build" =>
        \A f \in FencedTexts :
            (frame.full_response = f.text /\ PlainFence(f))
                => (frame.success /\ frame.result = f.val)

\* parse_json has answered for a tagged block between prose with braces
C5_Witness ==
    /\ frame.pc = "build"
    /\ \E f \in FencedTexts :
          /\ frame.full_response = f.text
          /\ PlainFence(f)
          /\ find(f.pre, "{") # 0
          /\ rfind(f.text, "}") > Len(f.text) - 2
          /\ frame.stage = "block"

NoBrace(text) == find(text, "{") = 0 /\ rfind(text, "}") = 0

\* C6: for a raw text with neither { nor }, parse_json returns failure and
\* conduct_research builds the fallback record.
C6_NoBraceFails ==
    /\ (frame.pc = "build" /\ NoBrace(frame.full_response)) => ~frame.success
    /\ (frame.pc = "insert" /\ NoBrace(frame.full_response))
          => frame.result = fallback_result(frame.full_response)

\* C7: when parse_json failed, the record conduct_research builds has the
\* summary of the parse error, the sections Error and Raw Response in this
\* order, no sources, and as Raw Response content the raw text when it has
\* at most 1000 characters, else its first 1000 characters and "...".
C7_FallbackRecord ==
    (frame.pc = "insert" /\ ~frame.success) =>
        LET raw == frame.full_response
            sections == Get(frame.result, K_sections, JNull).v
        IN  /\ frame.result.k = <<K_summary, K_sections, K_sources>>
            /\ Get(frame.result, K_summary, JNull) = JStr(FALLBACK_SUMMARY)
            /\ Get(frame.result, K_sources, JNull) = JArr(<<>>)
            /\ Len(sections) = 2
            /\ Get(sections[1], K_title, JNull) = JStr(<<"E", "r", "r", "o", "r">>)
            /\ Get(sections[2], K_title, JNull)
                  = JStr(<<"R", "a", "w", " ", "R", "e", "s", "p", "o", "n", "s", "e">>)
            /\ Get(sections[2], K_content, JNull)
                  = JStr(IF Len(raw) <= 1000 THEN raw
                         ELSE SubSeq(raw, 1, 1000) \o <<".", ".", ".">>)

\* the fallback was built from a raw text of exactly 1000 characters
C7_Witness ==
    /\ frame.pc = "insert"
    /\ ~frame.success
    /\ Len(frame.full_response) = 1000

\* C8: every stored row has a text as summary and sequences as sections and
\* sources, and its report_json is an object with exactly the keys summary,
\* sections and sources.
C8_StoredDraftShape ==
    \A id \in DOMAIN research_reports :
        LET row == research_reports[id]
            draft == json_loads(row.report_json)
        IN  /\ row.summary.t = "str"
            /\ row.sections.t = "arr"
            /\ row.sources.t = "arr"
            /\ draft.ok
            /\ draft.val.t = "obj"
            /\ {draft.val.k[i] : i \in 1..Len(draft.val.k)} = {K_summary, K_sections, K_sources}

\* C9: under the fair scheduling of LiveSpec, every task that is in_progress
\* or processing is eventually completed or failed.
C9_EventuallyTerminal ==
    \A id \in Ids : InFlight(id) ~> Terminal(id)

\* a task holds the event loop, past the model call, while another one waits
C9_Witness ==
    \E i \in Ids, j \in Ids :
        /\ Known(i) /\ StatusOf(i) = "processing" /\ frame.id = i /\ frame.pc = "insert"
        /\ Known(j) /\ StatusOf(j) = "in_progress"

\* C10: soft delete hides the report.  A response to getStatus, getReport,
\* getDocument or delete, given for an id whose row is already soft-deleted,
\* says not found (or is the failure of the store call).
C10_DeletedIsHidden ==
    [][\A id \in Ids :
          ( /\ Stored(id) /\ research_reports[id].deleted
            /\ resp' # resp
            /\ resp'.id = id
            /\ resp'.op \in {"status", "report", "pdf", "delete"} )
              => (SaysNotFound(resp') \/ StoreFailed(resp'))]_vars

C12_FailureRetained ==
    [][Restart \/
       \A id \in Ids :
          /\ Known(id) => id \in DOMAIN active_research_tasks'
          /\ (Known(id) /\ active_research_tasks[id].error # "")
                => active_research_tasks'[id].error = active_research_tasks[id].error
          /\ id \in DOMAIN active_research_tasks'
                => (active_research_tasks'[id].status = "failed"
                       <=> active_research_tasks'[id].error # "")
          /\ (frame.id = id /\ frame.pc = "generate" /\ frame'.pc = "idle")
                => /\ active_research_tasks'[id].status = "failed"
                   /\ active_research_tasks'[id].error = "ModelUnavailable"
          /\ (frame.id = id /\ frame.pc = "insert" /\ frame'.pc = "idle"
                 /\ research_reports' = research_reports)
                => /\ active_research_tasks'[id].status = "failed"
                   /\ active_research_tasks'[id].error = "StoreError"]_vars

\* one task failed in the model call and stayed so while another one failed
\* in the store insert
C12_Witness ==
    \E i \in Ids, j \in Ids :
        /\ Known(i) /\ StatusOf(i) = "failed"
        /\ active_research_tasks[i].error = "ModelUnavailable"
        /\ Known(j) /\ StatusOf(j) = "failed"
        /\ active_research_tasks[j].error = "StoreError"

\* C13: a response of getReport is the still-in-progress signal exactly when
\* the task is in memory with status in_progress or processing, and the
\* owner of a completed report that is stored and not deleted gets it (unless
\* the store call fails).
C13_StillInProgressExact ==
    [][\A id \in Ids :
          (resp' # resp /\ resp'.op = "report" /\ resp'.id = id)
             => /\ (resp'.detail = "Research is still in progress") <=> InFlight(id)
                /\ ( /\ Known(id) /\ StatusOf(id) = "completed"
                      /\ select_report(id, resp'.user) # <<>>
                      /\ ~StoreFailed(resp') )
                      => (resp'.code = 200 /\ resp'.report # <<>>)]_vars

\* C14: typed not-found.  A response of delete or getDocument for an id that
\* has no stored, non-deleted record of the caller is the 404 that getReport
\* gives (unless the store call failed or the request was refused as still in
\* progress).
C14_TypedNotFound ==
    [][\A id \in Ids :
          ( /\ resp' # resp
            /\ resp'.op \in {"pdf", "delete"}
            /\ resp'.id = id
            /\ select_report(id, resp'.user) = <<>>
            /\ ~StoreFailed(resp')
            /\ resp'.detail # "Research is still in progress" )
             => (resp'.code = 404 /\ resp'.detail = "Research report not found")]_vars

\* a 200 response of get_research_pdf is there, and the report it rendered
IsDocument == resp.op = "pdf" /\ resp.code = 200
Rendered == pdf_fields(research_reports[resp.id]).data

\* the flowable f is in the document of the response: in its summary part,
\* which ends at the first page break, or after it, where the sections are
InSummaryPart(f) ==
    \E n \in DOMAIN resp.document :
        resp.document[n] = f /\ \A m \in 1..n : resp.document[m] # PageBreak
InSectionPart(f) ==
    \E n \in DOMAIN resp.document :
        resp.document[n] = f /\ \E m \in 1..n : resp.document[m] = PageBreak

\* the blocks of the summary and of the sections' contents that the loops
\* do not skip as blank
Unskipped(text) ==
    { split_blocks(text)[k] : k \in { x \in 1..Len(split_blocks(text)) :
                                         strip(split_blocks(text)[x]) # <<>> } }
SummaryBlocks(report_data) == Unskipped(simple_sanitize(report_data.summary))
SectionBlocks(report_data) ==
    UNION { Unskipped(simple_sanitize(Get(report_data.sections.v[i], K_content,
                                          JStr(DEFAULT_CONTENT))))
            : i \in 1..Len(report_data.sections.v) }

\* C15: table fallback.  In a document that was built, every block of a
\* section's content that is taken for a table (it holds "|" and "---") and
\* produces none is there as a plain paragraph of that block.
C15_TableFallback ==
    IsDocument =>
        \A b \in SectionBlocks(Rendered) :
            (section_kind(b) = "table" /\ table_block(b) = <<>>)
               => InSectionPart(Paragraph(process_markdown(b), "normal_style"))

\* characters that start or end an inline pattern of process_markdown
MarkupChars == {"*", "_", "[", "]", "(", ")", BT, "^", "~", NL}

\* the block is mark, a run of plain characters, mark
Marked(b, mark) ==
    /\ Len(b) > 2 * Len(mark)
    /\ Matches(b, 1, mark)
    /\ Matches(b, Len(b) - Len(mark) + 1, mark)
    /\ \A i \in (Len(mark) + 1)..(Len(b) - Len(mark)) : b[i] \notin MarkupChars
Inner(b, mark) == SubSeq(b, Len(mark) + 1, Len(b) - Len(mark))

\* C16: strikethrough and subscript.  In a document that was built, a
\* section block ~~text~~ is there as a strikethrough run around text and a
\* block ~text~ as a subscript run around text.
C16_StrikeAndSub ==
    IsDocument =>
        \A b \in SectionBlocks(Rendered) :
            /\ Marked(b, <<"~", "~">>)
                  => InSectionPart(Paragraph(Tag(<<"s", "t", "r", "i", "k", "e">>) \o Inner(b, <<"~", "~">>)
                                             \o EndTag(<<"s", "t", "r", "i", "k", "e">>), "normal_style"))
            /\ Marked(b, <<"~">>)
                  => InSectionPart(Paragraph(Tag(<<"s", "u", "b">>) \o Inner(b, <<"~">>) \o EndTag(<<"s", "u", "b">>),
                                             "normal_style"))

\* number of "#" at the start of the block
Hashes(b) ==
    CHOOSE n \in 0..Len(b) :
        (\A i \in 1..n : b[i] = "#") /\ (n = Len(b) \/ b[n + 1] # "#")

\* C17: heading levels.  In a document that was built, a section block of n
\* "#" markers, a space and a text is there as a heading of that text, of
\* level n for n up to 3 and of level 3 for a larger n.
C17_HeadingLevels ==
    IsDocument =>
        \A b \in SectionBlocks(Rendered) :
            (Hashes(b) >= 1 /\ Hashes(b) < Len(b) /\ b[Hashes(b) + 1] = " ")
               => InSectionPart(Paragraph(process_markdown(SubSeq(b, Hashes(b) + 2, Len(b))),
                                          IF Hashes(b) = 1 THEN "h1_style"
                                          ELSE IF Hashes(b) = 2 THEN "h2_style" ELSE "h3_style"))

\* C18: one block classification.  In a document that was built, a block
\* that occurs both in the summary and in a section's content is classified
\* alike in both places: the kind chosen is the same, and the paragraphs and
\* tables that the block gives in the section are there in the summary too.
C18_SameClassification ==
    IsDocument =>
        \A b \in SummaryBlocks(Rendered) \cap SectionBlocks(Rendered) :
            /\ summary_kind(b) = section_kind(b)
            /\ \A n \in DOMAIN section_block(b) :
                   section_block(b)[n].kind \in {"Paragraph", "Table"}
                      => InSummaryPart(section_block(b)[n])


\* a bold run a, an emphasized run b, a link run c to http://x and a
\* monospace run d, with " and " between them
INLINE_RUNS ==
    Tag(<<"b">>) \o <<"a">> \o EndTag(<<"b">>) \o <<" ", "a", "n", "d", " ">> \o Tag(<<"i">>) \o <<"b">> \o EndTag(<<"i">>) \o <<" ", "a", "n", "d", " ">>
    \o <<"<", "l", "i", "n", "k", " ", "h", "r", "e", "f", "=", DQ,
         "h", "t", "t", "p", ":", "/", "/", "x", DQ, ">", "c", "<", "/", "l", "i", "n", "k", ">">>
    \o <<" ", "a", "n", "d", " ">> \o Tag(<<"c", "o", "d", "e">>) \o <<"d">> \o EndTag(<<"c", "o", "d", "e">>)

\* C19: inline markup order.  In a document that was built, the section
\* block  **a** and *b* and [c](http://x) and (backtick)d(backtick)  is
\* there as exactly the runs of INLINE_RUNS, and a block that is a bold pair
\* (** or __) around plain text is there as a bold run around that text: the
\* bold pairs are consumed before the italic patterns see their delimiters.
C19_InlineOrder ==
    IsDocument =>
        \A b \in SectionBlocks(Rendered) :
            /\ b = BLK_INLINE => InSectionPart(Paragraph(INLINE_RUNS, "normal_style"))
            /\ \A mark \in {<<"*", "*">>, <<"_", "_">>} :
                   Marked(b, mark)
                      => InSectionPart(Paragraph(Tag(<<"b">>) \o Inner(b, mark) \o EndTag(<<"b">>),
                                                 "normal_style"))

\* the document of the report whose one section holds the inline example
C19_Witness ==
    /\ IsDocument
    /\ BLK_INLINE \in SectionBlocks(Rendered)
    /\ InSectionPart(Paragraph(INLINE_RUNS, "normal_style"))

\* the row with sections and sources kept as the JSON text of their values
AsText(row) ==
    [row EXCEPT !.sections = JStr(json_dumps(row.sections)),
                !.sources = JStr(json_dumps(row.sources))]

\* what get_research_report returns for a row, and what get_research_pdf
\* renders for it (ok = FALSE: it answers 500)
ReportOf(row) == report_response(report_fields(row))
DocumentOf(row) ==
    IF pdf_fields(row).ok THEN generate_research_pdf(pdf_fields(row).data)
    ELSE [ok |-> FALSE, content |-> <<>>]

\* C20: stored-field representations.  For every stored row, getReport and
\* getDocument give the same result for the row as it is and for the row
\* with sections and sources as JSON text; and no report that getReport
\* returns, and no report that getDocument renders, has a str as sections
\* or as sources.
C20_StoredRepresentations ==
    /\ \A id \in DOMAIN research_reports :
           /\ ReportOf(AsText(research_reports[id])) = ReportOf(research_reports[id])
           /\ DocumentOf(AsText(research_reports[id])) = DocumentOf(research_reports[id])
    /\ (resp.op = "report" /\ resp.code = 200)
           => (resp.report[1].sections.t # "str" /\ resp.report[1].sources.t # "str")
    /\ IsDocument => (Rendered.sections.t # "str" /\ Rendered.sources.t # "str")

\* the six strategies in the order of the cascade, each with the text it
\* hands to the strict parser (tried = FALSE: the strategy has no such text)
Attempt(tried, text) ==
    [tried |-> tried, parse |-> IF tried THEN json_loads(text) ELSE json_loads(<<>>)]
Strategies(raw) ==
    LET block == code_block_match(raw)
        span == brace_span(raw)
        fixedSpan == brace_span(fix_escapes(raw))
    IN  << Attempt(TRUE, strip(raw)),
           Attempt(block.found, block.json_str),
           Attempt(block.found, fix_escapes(block.json_str)),
           Attempt(span.found, span.json_str),
           Attempt(span.found, fix_escapes(span.json_str)),
           Attempt(fixedSpan.found, fixedSpan.json_str) >>
Succeeds(a) == a.tried /\ a.parse.ok
STAGES == <<"raw", "block", "block_fixed", "span", "span_fixed", "text_fixed">>

\* C21: cascade order.  For every raw text parse_json returns the result of
\* the first of the six strategies that parses (trimmed text; interior of the
\* first fenced block; that interior repaired; brace span; brace span
\* repaired; brace span of the repaired text), and (False, None) only when
\* none of them parses.
C21_CascadeOrder ==
    frame.pc = "build" =>
        \E all \in {Strategies(frame.full_response)} :
            LET winners == { k \in 1..Len(all) : Succeeds(all[k]) }
            IN  IF winners = {} THEN ~frame.success /\ frame.stage = "none"
                ELSE \E k \in winners :
                        /\ \A j \in winners : k <= j
                        /\ frame.success
                        /\ frame.result = all[k].parse.val
                        /\ frame.stage = STAGES[k]

\* a fenced block was found and could not be parsed, and the brace span
\* gave the result
C21_Witness ==
    /\ frame.pc = "build"
    /\ code_block_match(frame.full_response).found
    /\ frame.stage = "span"
    /\ frame.success

\* the entry of id X as a sequence: <<>> when the task map has none
EntryOf(tasks, X) == IF X \in DOMAIN tasks THEN <<tasks[X]>> ELSE <<>>

\* the step is the process stopping and starting again
IsRestart ==
    /\ active_research_tasks' = <<>>
    /\ queued' = {}
    /\ frame' = NoFrame
    /\ resp' = NoResp

\* C22: single producer.  The entry of id X is created only by the submit
\* that issues X and changed only by a step of X's own background task;
\* every other request and every step of another task leaves its owner,
\* topic, status, error and start time as they are.  (The process stopping
\* is no operation of the service; it empties the task map.)
C22_SingleProducer ==
    [][\A X \in 1..MaxIds :
          LET before == EntryOf(active_research_tasks, X)
              after == EntryOf(active_research_tasks', X)
          IN  before # after =>
                \/ /\ before = <<>>
                   /\ resp'.op = "submit" /\ resp'.id = X
                   /\ next_id = X - 1 /\ next_id' = X
                \/ /\ before # <<>> /\ after # <<>>
                   /\ \/ frame.id = X /\ frame.pc # "idle"
                      \/ frame.pc = "idle" /\ frame'.id = X /\ frame'.pc = "generate"
                \/ IsRestart]_vars

\* the owner of task 1 has deleted its report and the entries of both tasks
\* are there, each in the terminal state its own task gave it
C22_Witness ==
    /\ Known(1) /\ Known(2)
    /\ active_research_tasks[1].status = "completed"
    /\ active_research_tasks[2].status = "failed"
    /\ resp.op = "delete" /\ resp.id = 1 /\ resp.code = 200

\* the running task is at the model-service call
AtModelCall == frame.pc = "generate"

\* C23: the model-service call is a suspension point.  While a task is in
\* processing and waits for the model service, a getStatus request can be
\* served, a submit can be served as long as an id is left, and a task that
\* is queued can start.
C23_Interleaving ==
    AtModelCall =>
        /\ ENABLED GetStatus
        /\ (next_id < MaxIds => ENABLED Submit)
        /\ (queued # {} => ENABLED Start)

\* the position of a conduct_research call, in the order of its statements
PcRank(pc) ==
    CASE pc = "generate" -> 1 [] pc = "parse" -> 2 [] pc = "build" -> 3
      [] pc = "insert" -> 4 [] pc = "idle" -> 5

\* C24: at most once, no retry.  For every id: the background task is
\* queued only by the submit that issues the id and is taken from the queue
\* when it starts; a running call only moves forward, so it passes the
\* model call once; a row is inserted only by that call, at its insert
\* statement, and is not inserted again; and once the task has failed it is
\* neither queued nor run again and no row of its id appears.
C24_AtMostOnce ==
    [][\A X \in 1..MaxIds :
          /\ (X \in queued' /\ X \notin queued) => (next_id = X - 1 /\ next_id' = X)
          /\ (frame'.id = X /\ frame.id # X)
                => (X \in queued /\ X \notin queued' /\ frame'.pc = "generate")
          /\ (frame.id = X /\ frame' # frame)
                => \/ frame' = NoFrame
                   \/ frame'.id = X /\ PcRank(frame'.pc) = PcRank(frame.pc) + 1
          /\ (X \in DOMAIN research_reports' /\ ~Stored(X))
                => (frame.id = X /\ frame.pc = "insert" /\ frame' = NoFrame)
          /\ Stored(X)
                => /\ X \in DOMAIN research_reports'
                   /\ [research_reports'[X] EXCEPT !.deleted = FALSE]
                        = [research_reports[X] EXCEPT !.deleted = FALSE]
          /\ (Known(X) /\ StatusOf(X) = "failed")
                => /\ ~Stored(X)
                   /\ X \notin queued' /\ frame'.id # X
                   /\ X \notin DOMAIN research_reports']_vars

\* the insert of task 1 raised and later the report of task 2 was stored
C24_Witness ==
    /\ Known(1) /\ StatusOf(1) = "failed" /\ active_research_tasks[1].error = "StoreError"
    /\ ~Stored(1)
    /\ Known(2) /\ StatusOf(2) = "completed" /\ Stored(2)

\* C25: getStatus resolution.  When the id has an in-memory entry, getStatus
\* gives the entry's status to its owner and AccessDenied to anyone else;
\* when it has none, getStatus gives completed if the store holds a row of
\* that id that is not deleted and is owned by the caller, and not-found if
\* it does not (or the answer is the failure of the store call).
C25_StatusResolution ==
    [][(resp' # resp /\ resp'.op = "status") =>
          \E id \in {resp'.id}, user \in {resp'.user} :
              IF Known(id)
              THEN IF active_research_tasks[id].user_id = user
                   THEN resp'.code = 200 /\ resp'.status = StatusOf(id)
                   ELSE resp'.code = 403 /\ resp'.detail = "Access denied"
              ELSE \/ StoreFailed(resp')
                   \/ IF /\ Stored(id)
                         /\ ~research_reports[id].deleted
                         /\ research_reports[id].user_id = user
                      THEN resp'.code = 200 /\ resp'.status = "completed"
                      ELSE resp'.code = 404]_vars

\* the id was issued, its task did not store a row, the process has started
\* again, and getStatus says not found
C25_Witness ==
    /\ resp.op = "status" /\ resp.code = 404
    /\ resp.id \in 1..next_id
    /\ ~Known(resp.id) /\ ~Stored(resp.id)

\* the result that conduct_research stored, read back from the report_json
\* column of its row
ResultOf(row) == json_loads(row.report_json).val

\* C26: status and store agree.  In every state, a task entry that is
\* completed has its row in the table (the table holds one row per id),
\* with the id, the owner and the topic of the entry and with the summary,
\* sections and sources of the task's result, parsed or fallback (a key the
\* result lacks gives the column its default); an entry that is in_progress,
\* processing or failed has no row.
C26_StatusStoreConsistent ==
    \A id \in DOMAIN active_research_tasks :
        IF StatusOf(id) = "completed"
        THEN /\ Stored(id)
             /\ \E row \in {research_reports[id]} :
                   /\ row.id = id
                   /\ row.user_id = active_research_tasks[id].user_id
                   /\ row.topic = active_research_tasks[id].topic
                   /\ ResultOf(row).t = "obj"
                   /\ row.summary = Get(ResultOf(row), K_summary, JStr(<<>>))
                   /\ row.sections = Get(ResultOf(row), K_sections, JArr(<<>>))
                   /\ row.sources = Get(ResultOf(row), K_sources, JArr(<<>>))
        ELSE ~Stored(id)

\* a task whose answer did not parse is completed and its fallback row is
\* soft-deleted, while the entry of a failed task has no row
C26_Witness ==
    \E id \in DOMAIN active_research_tasks, other \in DOMAIN active_research_tasks :
        /\ StatusOf(id) = "completed"
        /\ Stored(id)
        /\ research_reports[id].deleted
        /\ ResultOf(research_reports[id]) = fallback_result(<<"o", "o", "p", "s">>)
        /\ StatusOf(other) = "failed"

\* C27: escape repair is idempotent.  For the raw text of every task,
\* repairing the repaired text changes nothing:
\* fix_escapes(fix_escapes(t)) = fix_escapes(t).
C27_RepairIdempotent ==
    frame.pc = "parse" =>
        \E once \in {fix_escapes(frame.full_response)} : fix_escapes(once) = once

\* C28: stage 5 adds nothing over stage 4.  For every raw text with a first
\* { before a last }, the brace span of the repaired text is the repaired
\* brace span of the text, character for character; and parse_json never
\* returns from the repair of the whole text.
C28_GlobalRepairRedundant ==
    /\ frame.pc \in {"parse", "build"} =>
          \E span \in {brace_span(frame.full_response)} :
              span.found =>
                  brace_span(fix_escapes(frame.full_response))
                      = [found |-> TRUE, json_str |-> fix_escapes(span.json_str)]
    /\ frame.pc = "build" => frame.stage # "text_fixed"

\* the text has characters around its brace span, the repair changes it, and
\* neither the repaired span nor the repaired text parses
C28_Witness ==
    /\ frame.pc = "build"
    /\ brace_span(frame.full_response).found
    /\ brace_span(frame.full_response).json_str # frame.full_response
    /\ fix_escapes(frame.full_response) # frame.full_response
    /\ ~frame.success

====
